---------------------------- MODULE Spec2Model ----------------------------
(***************************************************************************)
(* A model of yaml-viz: FormGenerator (src/src/form_generator.py) and      *)
(* ExportUtils (src/src/export_utils.py).                                  *)
(*                                                                         *)
(* Python values are tagged records; a dict is an insertion-ordered        *)
(* sequence of entries [k, v]; a str is a sequence of one-character        *)
(* strings; YAML text is a sequence of lines, each a sequence of           *)
(* characters.  None is the YAML null value.                               *)
(***************************************************************************)
EXTENDS Integers, Sequences, FiniteSets, TLC

VARIABLES
    template,    \* FormGenerator.template
    root_key,    \* FormGenerator.root_key
    key_order,   \* FormGenerator.key_order
    form_data,   \* FormGenerator.form_data
    widgets,     \* the values the user has entered, by widget key
    op,          \* the operation that ran last
    arg,         \* its input
    out,         \* what it returned
    session      \* st.session_state: the session variables by name

vars == <<template, root_key, key_order, form_data, widgets, op, arg, out, session>>

-----------------------------------------------------------------------------
(* Python values *)

None == [t |-> "null"]
PyBool(b) == [t |-> "bool", b |-> b]
PyInt(n) == [t |-> "int", n |-> n]
\* A float num * 10^(-exp), with num not divisible by 10 unless exp = 0.
PyFloat(num, exp) == [t |-> "float", num |-> num, exp |-> exp]
PyStr(s) == [t |-> "str", s |-> s]
PyList(items) == [t |-> "list", items |-> items]
PyDict(kv) == [t |-> "dict", kv |-> kv]
Entry(k, v) == [k |-> k, v |-> v]

EmptyDict == PyDict(<<>>)
True == PyBool(TRUE)
False == PyBool(FALSE)

IsStr(v) == v.t = "str"
IsBool(v) == v.t = "bool"
\* isinstance(v, (int, float)): bool is a subclass of int
IsIntOrFloat(v) == v.t \in {"bool", "int", "float"}
IsList(v) == v.t = "list"
IsDict(v) == v.t = "dict"

\* bool(v): the truth value of a Python object
Truthy(v) ==
    CASE v.t = "null" -> FALSE
      [] v.t = "bool" -> v.b
      [] v.t = "int" -> v.n /= 0
      [] v.t = "float" -> v.num /= 0
      [] v.t = "str" -> v.s /= <<>>
      [] v.t = "list" -> v.items /= <<>>
      [] v.t = "dict" -> v.kv /= <<>>

Range(s) == {s[i] : i \in 1..Len(s)}

\* dict operations on the ordered entry sequence
DictKeys(d) == [i \in 1..Len(d.kv) |-> d.kv[i].k]
DictValues(d) == [i \in 1..Len(d.kv) |-> d.kv[i].v]
DictHas(d, k) == \E i \in 1..Len(d.kv) : d.kv[i].k = k
DictGet(d, k) == d.kv[CHOOSE i \in 1..Len(d.kv) : d.kv[i].k = k].v
\* d[k] = v: an existing key keeps its position, a new key goes last
DictSet(d, k, v) ==
    IF DictHas(d, k)
    THEN PyDict([i \in 1..Len(d.kv) |->
                    IF d.kv[i].k = k THEN Entry(k, v) ELSE d.kv[i]])
    ELSE PyDict(Append(d.kv, Entry(k, v)))
\* d.pop(k) leaves the other entries in order
DictDel(d, k) == PyDict(SelectSeq(d.kv, LAMBDA e : e.k /= k))

-----------------------------------------------------------------------------
(* Characters and text *)

Digits == {"0", "1", "2", "3", "4", "5", "6", "7", "8", "9"}
DigitVal(c) ==
    CASE c = "0" -> 0 [] c = "1" -> 1 [] c = "2" -> 2 [] c = "3" -> 3
      [] c = "4" -> 4 [] c = "5" -> 5 [] c = "6" -> 6 [] c = "7" -> 7
      [] c = "8" -> 8 [] c = "9" -> 9
DigitChar(n) == CHOOSE c \in Digits : DigitVal(c) = n

IsDigits(s) == \A i \in 1..Len(s) : s[i] \in Digits
From(s, i) == SubSeq(s, i, Len(s))
Upto(s, i) == SubSeq(s, 1, i)

RECURSIVE DecVal(_)
\* int("123")
DecVal(s) == IF s = <<>> THEN 0 ELSE 10 * DecVal(Upto(s, Len(s) - 1)) + DigitVal(s[Len(s)])

RECURSIVE DecStr(_)
\* str(n) for n >= 0
DecStr(n) == IF n < 10 THEN <<DigitChar(n)>> ELSE DecStr(n \div 10) \o <<DigitChar(n % 10)>>

RECURSIVE Pow10(_)
Pow10(e) == IF e = 0 THEN 1 ELSE 10 * Pow10(e - 1)

RECURSIVE Spaces(_)
Spaces(n) == IF n = 0 THEN <<>> ELSE <<" ">> \o Spaces(n - 1)

\* "sep".join(parts)
RECURSIVE Join(_, _)
Join(parts, sep) ==
    IF parts = <<>> THEN <<>>
    ELSE IF Len(parts) = 1 THEN parts[1]
    ELSE parts[1] \o sep \o Join(Tail(parts), sep)

\* the least index >= i at which s holds c, or 0
RECURSIVE IndexFrom(_, _, _)
IndexFrom(s, c, i) ==
    IF i > Len(s) THEN 0 ELSE IF s[i] = c THEN i ELSE IndexFrom(s, c, i + 1)

\* s.split(c)
RECURSIVE Split(_, _)
Split(s, c) ==
    LET i == IndexFrom(s, c, 1)
    IN  IF i = 0 THEN <<s>> ELSE <<Upto(s, i - 1)>> \o Split(From(s, i + 1), c)

-----------------------------------------------------------------------------
(* PyYAML's implicit resolver for plain scalars (yaml.resolver), as it     *)
(* applies to the texts safe_load and dump meet here: ASCII text without   *)
(* '_' inside numbers, '-' only as a sign.                                 *)

BoolTrueWords ==
    { <<"y","e","s">>, <<"Y","e","s">>, <<"Y","E","S">>,
      <<"t","r","u","e">>, <<"T","r","u","e">>, <<"T","R","U","E">>,
      <<"o","n">>, <<"O","n">>, <<"O","N">> }
BoolFalseWords ==
    { <<"n","o">>, <<"N","o">>, <<"N","O">>,
      <<"f","a","l","s","e">>, <<"F","a","l","s","e">>, <<"F","A","L","S","E">>,
      <<"o","f","f">>, <<"O","f","f">>, <<"O","F","F">> }
NullWords ==
    { <<>>, <<"~">>, <<"n","u","l","l">>, <<"N","u","l","l">>, <<"N","U","L","L">> }

HasSign(s) == s /= <<>> /\ s[1] \in {"-", "+"}
Unsigned(s) == IF HasSign(s) THEN Tail(s) ELSE s

\* 0 | [1-9][0-9]*
IsDecimal(s) == s /= <<>> /\ IsDigits(s) /\ (s[1] = "0" => Len(s) = 1)
\* [0-5]?[0-9]
IsSexGroup(s) == /\ Len(s) \in {1, 2} /\ IsDigits(s)
                 /\ (Len(s) = 2 => DigitVal(s[1]) <= 5)
\* [1-9][0-9]*(:[0-5]?[0-9])+
IsSexInt(s) ==
    LET parts == Split(s, ":")
    IN  /\ Len(parts) >= 2
        /\ parts[1] /= <<>> /\ IsDigits(parts[1]) /\ parts[1][1] /= "0"
        /\ \A i \in 2..Len(parts) : IsSexGroup(parts[i])
\* 0[0-7]+
IsOctal(s) == Len(s) >= 2 /\ s[1] = "0" /\ \A i \in 2..Len(s) : s[i] \in Digits \ {"8", "9"}
IsIntText(s) == IsDecimal(Unsigned(s)) \/ IsOctal(Unsigned(s)) \/ IsSexInt(Unsigned(s))

\* [-+]?[0-9][0-9]*\.[0-9]*  |  \.[0-9]+  |  [-+]?[0-9]+(:[0-5]?[0-9])+\.[0-9]*
IsFloatText(s) ==
    LET u == Unsigned(s)
        dot == IndexFrom(u, ".", 1)
        ip == Upto(u, dot - 1)
        fp == From(u, dot + 1)
        parts == Split(ip, ":")
    IN  /\ dot > 0
        /\ IsDigits(fp)
        /\ \/ ip /= <<>> /\ IsDigits(ip)
           \/ ip = <<>> /\ fp /= <<>> /\ ~HasSign(s)
           \/ /\ Len(parts) >= 2
              /\ parts[1] /= <<>> /\ IsDigits(parts[1])
              /\ \A i \in 2..Len(parts) : IsSexGroup(parts[i])

\* the tag of a plain scalar
ResolveTag(s) ==
    IF s \in BoolTrueWords \cup BoolFalseWords THEN "bool"
    ELSE IF IsFloatText(s) THEN "float"
    ELSE IF IsIntText(s) THEN "int"
    ELSE IF s \in NullWords THEN "null"
    ELSE "str"

RECURSIVE SexVal(_)
\* base-60 value of digit groups
SexVal(parts) ==
    IF parts = <<>> THEN 0
    ELSE 60 * SexVal(Upto(parts, Len(parts) - 1)) + DecVal(parts[Len(parts)])

RECURSIVE OctVal(_)
OctVal(s) == IF s = <<>> THEN 0 ELSE 8 * OctVal(Upto(s, Len(s) - 1)) + DigitVal(s[Len(s)])

RECURSIVE Normal(_, _)
\* the float num * 10^(-exp) in lowest terms
Normal(num, exp) ==
    IF exp > 0 /\ num % 10 = 0 THEN Normal(num \div 10, exp - 1) ELSE PyFloat(num, exp)

ConstructInt(s) ==
    LET u == Unsigned(s)
        n == IF IndexFrom(u, ":", 1) > 0 THEN SexVal(Split(u, ":"))
             ELSE IF IsOctal(u) THEN OctVal(u)
             ELSE DecVal(u)
    IN  PyInt(IF HasSign(s) /\ s[1] = "-" THEN 0 - n ELSE n)

ConstructFloat(s) ==
    LET u == Unsigned(s)
        dot == IndexFrom(u, ".", 1)
        ip == Upto(u, dot - 1)
        fp == From(u, dot + 1)
        whole == IF IndexFrom(ip, ":", 1) > 0 THEN SexVal(Split(ip, ":")) ELSE DecVal(ip)
        n == whole * Pow10(Len(fp)) + DecVal(fp)
    IN  Normal(IF HasSign(s) /\ s[1] = "-" THEN 0 - n ELSE n, Len(fp))

\* the Python object safe_load constructs from a plain scalar
ConstructPlain(s) ==
    LET tag == ResolveTag(s)
    IN  CASE tag = "bool" -> PyBool(s \in BoolTrueWords)
          [] tag = "int" -> ConstructInt(s)
          [] tag = "float" -> ConstructFloat(s)
          [] tag = "null" -> None
          [] OTHER -> PyStr(s)

-----------------------------------------------------------------------------
(* yaml.dump(data, default_flow_style=False, indent=2, allow_unicode=True, *)
(* sort_keys=False): PyYAML's representer and emitter for the block style. *)
(* Scalars are short (no line folding at width 80) and hold no line breaks *)
(* or non-printable characters, so the double-quoted style is never        *)
(* chosen.                                                                 *)

Whitespace == {" "}
LeadingIndicators ==
    {"#", ",", "[", "]", "{", "}", "&", "*", "!", "|", ">", "'", "\"", "%", "@"}

\* Emitter.analyze_scalar: block_indicators, or a leading or trailing space
BlockPlainForbidden(s) ==
    LET n == Len(s)
        followed(i) == i + 1 > n \/ s[i + 1] \in Whitespace
        preceded(i) == i = 1 \/ s[i - 1] \in Whitespace
    IN  \/ n >= 3 /\ Upto(s, 3) \in {<<"-", "-", "-">>, <<".", ".", ".">>}
        \/ n >= 1 /\ s[1] \in LeadingIndicators
        \/ n >= 1 /\ s[1] \in {"?", ":"} /\ followed(1)
        \/ n >= 1 /\ s[1] = "-" /\ followed(1)
        \/ \E i \in 2..n : s[i] = ":" /\ followed(i)
        \/ \E i \in 2..n : s[i] = "#" /\ preceded(i)
        \/ n >= 1 /\ (s[1] = " " \/ s[n] = " ")

\* Emitter.choose_scalar_style for a str: "" is plain, "'" single-quoted.
\* implicit: the plain text would resolve to a str again.
ScalarStyle(s, simple_key) ==
    IF /\ ResolveTag(s) = "str"
       /\ ~(simple_key /\ s = <<>>)
       /\ ~BlockPlainForbidden(s)
    THEN "" ELSE "'"

RECURSIVE DoubleQuotes(_, _)
\* s.replace(q, q + q)
DoubleQuotes(s, q) ==
    IF s = <<>> THEN <<>>
    ELSE (IF s[1] = q THEN <<q, q>> ELSE <<s[1]>>) \o DoubleQuotes(Tail(s), q)

\* Emitter.write_single_quoted / write_plain
EmitStr(s, simple_key) ==
    IF ScalarStyle(s, simple_key) = "" THEN s
    ELSE <<"'">> \o DoubleQuotes(s, "'") \o <<"'">>

\* repr(float) as SafeRepresenter.represent_float writes it
FloatRepr(v) ==
    LET a == IF v.num < 0 THEN 0 - v.num ELSE v.num
        whole == a \div Pow10(v.exp)
        frac == a % Pow10(v.exp)
        fdigits == IF v.exp = 0 THEN <<"0">>
                   ELSE LET d == DecStr(frac)
                        IN  [i \in 1..(v.exp - Len(d)) |-> "0"] \o d
    IN  (IF v.num < 0 THEN <<"-">> ELSE <<>>) \o DecStr(whole) \o <<".">> \o fdigits

\* the text of a scalar node
EmitScalar(v, simple_key) ==
    CASE v.t = "null" -> <<"n", "u", "l", "l">>
      [] v.t = "bool" -> IF v.b THEN <<"t", "r", "u", "e">> ELSE <<"f", "a", "l", "s", "e">>
      [] v.t = "int" -> IF v.n < 0 THEN <<"-">> \o DecStr(0 - v.n) ELSE DecStr(v.n)
      [] v.t = "float" -> FloatRepr(v)
      [] v.t = "str" -> EmitStr(v.s, simple_key)

IsScalar(v) == v.t \in {"null", "bool", "int", "float", "str"}
\* an empty collection is written in flow style
IsInline(v) == IsScalar(v) \/ Truthy(v) = FALSE
EmitInline(v) ==
    IF IsList(v) THEN <<"[", "]">>
    ELSE IF IsDict(v) THEN <<"{", "}">>
    ELSE EmitScalar(v, FALSE)

RECURSIVE EmitNode(_, _)
RECURSIVE EmitEntries(_, _, _)
RECURSIVE EmitItems(_, _, _)

\* The lines of a block node, the node's column being `indent`; the first
\* line carries no indentation of its own (the parent writes what leads it).
EmitNode(v, indent) ==
    IF IsInline(v) THEN <<EmitInline(v)>>
    ELSE IF IsDict(v) THEN EmitEntries(v.kv, 1, indent)
    ELSE EmitItems(v.items, 1, indent)

\* block mapping: "key: scalar", or "key:" and the value's lines below it;
\* a nested mapping is indented by 2, a nested sequence is not indented
EmitEntries(kv, i, indent) ==
    IF i > Len(kv) THEN <<>>
    ELSE LET key == EmitScalar(kv[i].k, TRUE)
             v == kv[i].v
             lead == IF i = 1 THEN <<>> ELSE Spaces(indent)
             here ==
                 IF IsInline(v) THEN <<lead \o key \o <<":", " ">> \o EmitInline(v)>>
                 ELSE LET sub == IF IsDict(v) THEN indent + 2 ELSE indent
                          body == EmitNode(v, sub)
                      IN  <<lead \o key \o <<":">>>>
                          \o <<Spaces(sub) \o body[1]>> \o Tail(body)
         IN  here \o EmitEntries(kv, i + 1, indent)

\* block sequence: "- item", a nested block node starting on the same line
EmitItems(items, i, indent) ==
    IF i > Len(items) THEN <<>>
    ELSE LET lead == IF i = 1 THEN <<>> ELSE Spaces(indent)
             body == EmitNode(items[i], indent + 2)
         IN  <<lead \o <<"-", " ">> \o body[1]>> \o Tail(body)
             \o EmitItems(items, i + 1, indent)

\* yaml.dump of a dict or list: the lines of the document
YamlDump(v) == EmitNode(v, 0)

-----------------------------------------------------------------------------
(* ExportUtils._clean_yaml_quotes: re.sub(r"""(['"])(.*?)\1""", r"\2", s). *)
(* '.' does not match a line break, so the substitution works line by line.*)

QuoteChars == {"'", "\""}

RECURSIVE CleanLine(_)
\* Leftmost match first: a quote character with a later equal one on the
\* line; the lazy group ends at the nearest; both are dropped, the text
\* between them is kept as it is, and the scan goes on after the match.
CleanLine(line) ==
    IF line = <<>> THEN <<>>
    ELSE LET j == IF line[1] \in QuoteChars THEN IndexFrom(line, line[1], 2) ELSE 0
         IN  IF j = 0 THEN <<line[1]>> \o CleanLine(Tail(line))
             ELSE SubSeq(line, 2, j - 1) \o CleanLine(From(line, j + 1))

_clean_yaml_quotes(yaml_str) == [i \in 1..Len(yaml_str) |-> CleanLine(yaml_str[i])]

-----------------------------------------------------------------------------
(* yaml.safe_load: PyYAML's scanner, parser and constructor for block      *)
(* documents: block mappings and sequences of single-line scalars, plain   *)
(* or quoted, and the empty flow collections [] and {}.  A result is       *)
(* [ok |-> TRUE, v |-> value], or [ok |-> FALSE] for a yaml.YAMLError.     *)

YamlError == [ok |-> FALSE]
Loaded(v) == [ok |-> TRUE, v |-> v]

RECURSIVE LeadingSpaces(_)
LeadingSpaces(line) ==
    IF line /= <<>> /\ line[1] = " " THEN 1 + LeadingSpaces(Tail(line)) ELSE 0
RECURSIVE RStrip(_)
RStrip(line) ==
    IF line /= <<>> /\ line[Len(line)] = " " THEN RStrip(Upto(line, Len(line) - 1)) ELSE line
Strip(line) == RStrip(From(line, LeadingSpaces(line) + 1))

\* a line as the scanner sees it: its column and its text
ScanLine(line) == [ind |-> LeadingSpaces(line), c |-> Strip(line)]

RECURSIVE QuotedEnd(_, _, _)
\* the index of the quote that closes the quoted scalar whose text starts at
\* i, or 0; in a single-quoted scalar '' stands for one quote
QuotedEnd(text, q, i) ==
    IF i > Len(text) THEN 0
    ELSE IF text[i] /= q THEN QuotedEnd(text, q, i + 1)
    ELSE IF q = "'" /\ i < Len(text) /\ text[i + 1] = q THEN QuotedEnd(text, q, i + 2)
    ELSE i

RECURSIVE Unquote(_, _)
Unquote(s, q) ==
    IF s = <<>> THEN <<>>
    ELSE IF q = "'" /\ s[1] = q THEN <<q>> \o Unquote(From(s, 3), q)
    ELSE <<s[1]>> \o Unquote(Tail(s), q)

\* ":" followed by a space or the end of the line ends a plain scalar
IsValueIndicator(c, i) == c[i] = ":" /\ (i = Len(c) \/ c[i + 1] = " ")
HasValueIndicator(c) == \E i \in 1..Len(c) : IsValueIndicator(c, i)
\* "- " or a lone "-" starts a block sequence entry
IsBlockEntry(c) == c /= <<>> /\ c[1] = "-" /\ (Len(c) = 1 \/ c[2] = " ")

\* Where a line's simple key ends: [ok, key, rest], rest the text after
\* the ":"; ok is FALSE when the line holds no "key:".
SplitKey(c) ==
    IF c /= <<>> /\ c[1] \in QuoteChars
    THEN LET e == QuotedEnd(c, c[1], 2)
             after == From(c, e + 1)
             colon == LeadingSpaces(after) + 1
         IN  IF e > 0 /\ colon <= Len(after) /\ IsValueIndicator(after, colon)
             THEN [ok |-> TRUE, key |-> PyStr(Unquote(SubSeq(c, 2, e - 1), c[1])),
                   rest |-> Strip(From(after, colon + 1))]
             ELSE [ok |-> FALSE]
    ELSE IF HasValueIndicator(c)
    THEN LET i == CHOOSE i \in 1..Len(c) :
                      IsValueIndicator(c, i) /\ \A j \in 1..(i - 1) : ~IsValueIndicator(c, j)
         IN  [ok |-> TRUE, key |-> ConstructPlain(RStrip(Upto(c, i - 1))),
              rest |-> Strip(From(c, i + 1))]
    ELSE [ok |-> FALSE]

\* A node written on one line after "key: " or alone on its line.  In a
\* plain scalar a further "key:" or a block entry is a scanner error
\* ("mapping values are not allowed here").
ParseInline(c) ==
    IF c = <<>> THEN Loaded(None)
    ELSE IF c[1] \in QuoteChars
    THEN LET e == QuotedEnd(c, c[1], 2)
         IN  IF e = Len(c) THEN Loaded(PyStr(Unquote(SubSeq(c, 2, e - 1), c[1])))
             ELSE YamlError
    ELSE IF c = <<"[", "]">> THEN Loaded(PyList(<<>>))
    ELSE IF c = <<"{", "}">> THEN Loaded(EmptyDict)
    ELSE IF c[1] \in LeadingIndicators \/ HasValueIndicator(c) \/ IsBlockEntry(c)
    THEN YamlError
    ELSE Loaded(ConstructPlain(c))

RECURSIVE ParseNode(_, _, _)
RECURSIVE ParseSeq(_, _, _, _)
RECURSIVE ParseMap(_, _, _, _)

ParseFailed == [ok |-> FALSE]

\* a scalar x that ends its line: the node it makes
InlineNode(x, next) ==
    IF x.ok THEN [ok |-> TRUE, v |-> x.v, next |-> next] ELSE ParseFailed

\* the item after the "-" of line i: nothing, or a node that starts there
ParseItem(lines, i, col) ==
    LET after == Tail(lines[i].c)
        sub == col + 1 + LeadingSpaces(after)
    IN  IF Strip(after) = <<>> THEN [ok |-> TRUE, v |-> None, next |-> i + 1]
        ELSE ParseNode([lines EXCEPT ![i] = [ind |-> sub, c |-> Strip(after)]], i, sub)

\* the sequence goes on after the item r
SeqNext(lines, col, acc, r) ==
    IF r.ok THEN ParseSeq(lines, r.next, col, Append(acc, r.v)) ELSE ParseFailed

\* the value of the key on line i: the rest of the line, or the node on
\* the lines below (a sequence may sit in the key's own column), or nothing
ParseValue(lines, i, col, rest) ==
    IF rest /= <<>> THEN InlineNode(ParseInline(rest), i + 1)
    ELSE IF i + 1 <= Len(lines) /\ lines[i + 1].ind > col
    THEN ParseNode(lines, i + 1, lines[i + 1].ind)
    ELSE IF i + 1 <= Len(lines) /\ lines[i + 1].ind = col /\ IsBlockEntry(lines[i + 1].c)
    THEN ParseSeq(lines, i + 1, col, <<>>)
    ELSE [ok |-> TRUE, v |-> None, next |-> i + 1]

\* the mapping goes on after the value r of key
MapNext(lines, col, acc, key, r) ==
    IF r.ok THEN ParseMap(lines, r.next, col, DictSet(acc, key, r.v)) ELSE ParseFailed

\* the entry whose key kv was found on line i
ParseEntry(lines, i, col, acc, kv) ==
    MapNext(lines, col, acc, kv.key, ParseValue(lines, i, col, kv.rest))

\* The block node that starts on line i in column col:
\* [ok, v, next], next the first line after the node.
ParseNode(lines, i, col) ==
    IF IsBlockEntry(lines[i].c) THEN ParseSeq(lines, i, col, <<>>)
    ELSE IF SplitKey(lines[i].c).ok THEN ParseMap(lines, i, col, EmptyDict)
    ELSE InlineNode(ParseInline(lines[i].c), i + 1)

ParseSeq(lines, i, col, acc) ==
    IF i > Len(lines) \/ lines[i].ind < col
       \/ (lines[i].ind = col /\ ~IsBlockEntry(lines[i].c))
    THEN [ok |-> TRUE, v |-> PyList(acc), next |-> i]
    ELSE IF lines[i].ind > col THEN ParseFailed
    ELSE SeqNext(lines, col, acc, ParseItem(lines, i, col))

ParseMap(lines, i, col, acc) ==
    IF i > Len(lines) \/ lines[i].ind < col
    THEN [ok |-> TRUE, v |-> acc, next |-> i]
    ELSE IF lines[i].ind > col \/ IsBlockEntry(lines[i].c) \/ ~SplitKey(lines[i].c).ok
    THEN ParseFailed
    ELSE ParseEntry(lines, i, col, acc, SplitKey(lines[i].c))

\* the document, when the node r takes all n lines
Document(r, n) == IF r.ok /\ r.next = n + 1 THEN Loaded(r.v) ELSE YamlError

\* the lines the scanner keeps: those that are not blank
ScanLines(text) ==
    SelectSeq([i \in 1..Len(text) |-> ScanLine(text[i])], LAMBDA l : l.c /= <<>>)

\* the node that is the whole of lines
ParseDocument(lines) ==
    IF lines = <<>> THEN Loaded(None)
    ELSE Document(ParseNode(lines, 1, lines[1].ind), Len(lines))

\* yaml.safe_load(text): an empty document loads as None
SafeLoad(text) == ParseDocument(ScanLines(text))

-----------------------------------------------------------------------------
(* str(x) and repr(x) *)

RECURSIVE ReprEscape(_, _)
\* the body of repr(str): the chosen quote and the backslash escaped, a line
\* break written as \n
ReprEscape(s, q) ==
    IF s = <<>> THEN <<>>
    ELSE (IF s[1] = q \/ s[1] = "\\" THEN <<"\\", s[1]>>
          ELSE IF s[1] = "\n" THEN <<"\\", "n">>
          ELSE <<s[1]>>) \o ReprEscape(Tail(s), q)

\* repr of a str: single quotes, unless it holds ' and no "
StrRepr(s) ==
    LET q == IF "'" \in Range(s) /\ "\"" \notin Range(s) THEN "\"" ELSE "'"
    IN  <<q>> \o ReprEscape(s, q) \o <<q>>

RECURSIVE PyRepr(_)
PyRepr(v) ==
    CASE v.t = "null" -> <<"N", "o", "n", "e">>
      [] v.t = "bool" -> IF v.b THEN <<"T", "r", "u", "e">> ELSE <<"F", "a", "l", "s", "e">>
      [] v.t = "int" -> IF v.n < 0 THEN <<"-">> \o DecStr(0 - v.n) ELSE DecStr(v.n)
      [] v.t = "float" -> FloatRepr(v)
      [] v.t = "str" -> StrRepr(v.s)
      [] v.t = "list" ->
           <<"[">> \o Join([i \in 1..Len(v.items) |-> PyRepr(v.items[i])], <<",", " ">>)
           \o <<"]">>
      [] v.t = "dict" ->
           <<"{">> \o Join([i \in 1..Len(v.kv) |->
                               PyRepr(v.kv[i].k) \o <<":", " ">> \o PyRepr(v.kv[i].v)],
                           <<",", " ">>)
           \o <<"}">>

\* str(v), also what an f-string writes for {v}
ToStr(v) == IF IsStr(v) THEN v.s ELSE PyRepr(v)

-----------------------------------------------------------------------------
(* settings.py *)

FIELD_PREFIX == <<"f", "i", "e", "l", "d", "_">>
BOOL_PREFIX == <<"b", "o", "o", "l", "_">>
NUM_PREFIX == <<"n", "u", "m", "_">>
MULTI_PREFIX == <<"m", "u", "l", "t", "i", "_">>
CAT_PREFIX == <<"c", "a", "t", "_">>
NO_DATA_TEXT == <<"N", "o", " ", "d", "a", "t", "a">>

NameKey == PyStr(<<"n", "a", "m", "e">>)
CodeKey == PyStr(<<"c", "o", "d", "e">>)

-----------------------------------------------------------------------------
(* FormGenerator *)

\* FormGenerator(): the fields after __init__
NewGenerator ==
    [template |-> None, root_key |-> None, key_order |-> <<>>, form_data |-> EmptyDict]

\* load_template with key_order always taken from the top-level mapping
LoadDocument_TopLevelOrder(self, r) ==
    (   IF ~r.ok THEN [self |-> self, ret |-> False]
        ELSE IF ~IsDict(r.v)
        THEN [self |-> [self EXCEPT !.template = r.v], ret |-> False]
        ELSE LET values == DictValues(r.v)
                 rooted == Len(r.v.kv) = 1 /\ IsDict(values[1])
             IN  [self |-> [self EXCEPT
                               !.template = r.v,
                               !.root_key = IF rooted THEN DictKeys(r.v)[1] ELSE None,
                               !.key_order = DictKeys(r.v)],
                  ret |-> True] )

\* load_template whose else branch does not reset root_key
LoadDocument_KeepRoot(self, r) ==
    (   IF ~r.ok THEN [self |-> self, ret |-> False]
        ELSE IF ~IsDict(r.v)
        THEN [self |-> [self EXCEPT !.template = r.v], ret |-> False]
        ELSE LET values == DictValues(r.v)
                 rooted == Len(r.v.kv) = 1 /\ IsDict(values[1])
                 project_data == IF rooted THEN values[1] ELSE r.v
             IN  [self |-> [self EXCEPT
                               !.template = r.v,
                               !.root_key = IF rooted THEN DictKeys(r.v)[1] ELSE @,
                               !.key_order = DictKeys(project_data)],
                  ret |-> True] )

\* load_template that drops the template it holds when the text does not parse
LoadDocument_ClearFirst(self, r) ==
    (   IF ~r.ok THEN [self |-> [self EXCEPT !.template = None], ret |-> False]
        ELSE IF ~IsDict(r.v)
        THEN [self |-> [self EXCEPT !.template = r.v], ret |-> False]
        ELSE LET values == DictValues(r.v)
                 rooted == Len(r.v.kv) = 1 /\ IsDict(values[1])
                 project_data == IF rooted THEN values[1] ELSE r.v
             IN  [self |-> [self EXCEPT
                               !.template = r.v,
                               !.root_key = IF rooted THEN DictKeys(r.v)[1] ELSE None,
                               !.key_order = DictKeys(project_data)],
                  ret |-> True] )

\* the body of load_template once safe_load has returned r or raised
LoadDocument(self, r) ==
    IF ~r.ok THEN [self |-> self, ret |-> False]
    ELSE IF ~IsDict(r.v)
    THEN [self |-> [self EXCEPT !.template = r.v], ret |-> False]
    ELSE LET values == DictValues(r.v)
             rooted == Len(r.v.kv) = 1 /\ IsDict(values[1])
             project_data == IF rooted THEN values[1] ELSE r.v
         IN  [self |-> [self EXCEPT
                           !.template = r.v,
                           !.root_key = IF rooted THEN DictKeys(r.v)[1] ELSE None,
                           !.key_order = DictKeys(project_data)],
              ret |-> True]

\* load_template(content): the fields afterwards and the value returned.
\* safe_load raises before self.template is assigned; a root that is not a
\* dict has been assigned when False is returned.
load_template(self, content) == LoadDocument(self, SafeLoad(content))


\* _is_category_structure that is content with one sequence
_is_category_structure_OneList(obj) ==
    LET list_values == SelectSeq(DictValues(obj), IsList)
    IN  /\ Len(list_values) >= 1
        /\ \E i \in 1..Len(list_values) :
              LET arr == list_values[i]
              IN  /\ Truthy(arr)
                  /\ IsDict(arr.items[1])
                  /\ DictHas(arr.items[1], NameKey)

\* _is_category_structure(obj)
_is_category_structure(obj) ==
    LET list_values == SelectSeq(DictValues(obj), IsList)
    IN  /\ Len(list_values) >= 2
        /\ \E i \in 1..Len(list_values) :
              LET arr == list_values[i]
              IN  /\ Truthy(arr)
                  /\ IsDict(arr.items[1])
                  /\ DictHas(arr.items[1], NameKey)

\* _format_tab_name that does not strip
_format_tab_name_NoStrip(name) == Split(name, "(")[1]

\* name.split("(")[0].strip()
_format_tab_name(name) == Strip(Split(name, "(")[1])

\* _format_item_display that ignores the code
_format_item_display_NameOnly(item) ==
    IF IsDict(item) /\ DictHas(item, NameKey) THEN ToStr(DictGet(item, NameKey)) ELSE ToStr(item)

\* _format_item_display(item)
_format_item_display(item) ==
    IF IsDict(item) /\ DictHas(item, NameKey)
    THEN LET code_suffix ==
                 IF DictHas(item, CodeKey)
                 THEN <<" ", "(">> \o ToStr(DictGet(item, CodeKey)) \o <<")">>
                 ELSE <<>>
         IN  ToStr(DictGet(item, NameKey)) \o code_suffix
    ELSE ToStr(item)

\* _map_display_to_objects(selected_displays, original_items): for each
\* selected string the first item it is the display of
_map_display_to_objects(selected_displays, original_items) ==
    LET Matches(d) == {j \in 1..Len(original_items) :
                          _format_item_display(original_items[j]) = d}
        found == SelectSeq(selected_displays, LAMBDA d : Matches(d) /= {})
    IN  [i \in 1..Len(found) |->
            original_items[CHOOSE j \in Matches(found[i]) :
                               \A m \in Matches(found[i]) : j <= m]]

(* The presentation framework.  A widget is identified by its kind, its    *)
(* key and the parameters it is created with; it returns what the user has *)
(* entered for it, and until then its default: the value= argument for a   *)
(* text input, checkbox and number input, and the empty selection for a    *)
(* multiselect, which this code creates with options only.  Two widgets    *)
(* with one key in a pass raise DuplicateWidgetID.                         *)

TextInput(key, value) == [key |-> key, kind |-> "text_input", param |-> value]
Checkbox(key, value) == [key |-> key, kind |-> "checkbox", param |-> value]
NumberInput(key, value) == [key |-> key, kind |-> "number_input", param |-> value]
Multiselect(key, options) == [key |-> key, kind |-> "multiselect", param |-> PyList(options)]

WidgetDefault(w) ==
    CASE w.kind = "multiselect" -> PyList(<<>>)
      [] w.kind = "selectbox" -> w.param.items[1]
      [] OTHER -> w.param
WidgetValue(W, w) == IF w \in DOMAIN W THEN W[w] ELSE WidgetDefault(w)

\* A render pass in progress: form_data, the widgets created so far, and
\* whether an exception has ended the pass.
Pass(fd) == [fd |-> fd, ws |-> {}, err |-> FALSE]
Raise(rs) == [rs EXCEPT !.err = TRUE]
IsDuplicate(rs, w) == \E x \in rs.ws : x.key = w.key
Create(rs, w) == [rs EXCEPT !.ws = @ \cup {w}]

\* iterating a category's value: a list yields its items, a str its
\* characters, a dict its keys; anything else is not iterable
IsIterable(v) == v.t \in {"list", "str", "dict"}
IterItems(v) ==
    CASE v.t = "list" -> v.items
      [] v.t = "str" -> [i \in 1..Len(v.s) |-> PyStr(<<v.s[i]>>)]
      [] v.t = "dict" -> DictKeys(v)

RECURSIVE _render_field(_, _, _, _)
RECURSIVE RenderTabs(_, _, _, _, _, _)
RECURSIVE RenderNested(_, _, _, _, _, _)

\* the multiselect of the tab of cat_key, its options the displays of items
TabWidget(key, cat_key, items) ==
    Multiselect(CAT_PREFIX \o key.s \o <<"_">> \o ToStr(cat_key),
                [j \in 1..Len(IterItems(items)) |->
                    PyStr(_format_item_display(IterItems(items)[j]))])

\* category_data after the tab of cat_key returned selected
TabData(cd, cat_key, items, selected) ==
    IF Truthy(selected)
    THEN DictSet(cd, cat_key,
                 PyList(_map_display_to_objects(
                            [j \in 1..Len(selected.items) |-> selected.items[j].s],
                            IterItems(items))))
    ELSE cd

\* tab i, whose widget is w
RenderTab(rs, W, key, value, i, cd, w) ==
    IF IsDuplicate(rs, w) THEN Raise(rs)
    ELSE RenderTabs(Create(rs, w), W, key, value, i + 1,
                    TabData(cd, value.kv[i].k, value.kv[i].v, WidgetValue(W, w)))

\* _render_category_tabs(key, value, label): the loop over the tabs from
\* tab i on, category_data so far in cd
RenderTabs(rs, W, key, value, i, cd) ==
    IF rs.err THEN rs
    ELSE IF i > Len(value.kv)
    THEN IF Truthy(cd) THEN [rs EXCEPT !.fd = DictSet(@, key, cd)] ELSE rs
    ELSE IF ~IsIterable(value.kv[i].v) THEN Raise(rs)
    ELSE RenderTab(rs, W, key, value, i, cd, TabWidget(key, value.kv[i].k, value.kv[i].v))

RECURSIVE DynamicRenderTabs(_, _, _, _, _, _)

\* category_data of DynamicFormGenerator after the tab of cat_key returned
\* selected: category_data[cat_key] = selected
DynamicTabData(cd, cat_key, selected) ==
    IF Truthy(selected) THEN DictSet(cd, cat_key, selected) ELSE cd

\* tab i of DynamicFormGenerator, whose widget is w
DynamicRenderTab(rs, W, key, value, i, cd, w) ==
    IF IsDuplicate(rs, w) THEN Raise(rs)
    ELSE DynamicRenderTabs(Create(rs, w), W, key, value, i + 1,
                           DynamicTabData(cd, value.kv[i].k, WidgetValue(W, w)))

\* DynamicFormGenerator._render_category_tabs(key, value, label): the loop
\* over the tabs from tab i on, category_data so far in cd
DynamicRenderTabs(rs, W, key, value, i, cd) ==
    IF rs.err THEN rs
    ELSE IF i > Len(value.kv)
    THEN IF Truthy(cd) THEN [rs EXCEPT !.fd = DictSet(@, key, cd)] ELSE rs
    ELSE IF ~IsIterable(value.kv[i].v) THEN Raise(rs)
    ELSE DynamicRenderTab(rs, W, key, value, i, cd,
                          TabWidget(key, value.kv[i].k, value.kv[i].v))

\* the loop of _render_nested_object after the field of sub-key i has been
\* rendered, leaving the pass in r: its entry moves from form_data to
\* nested_data
NestedNext(r, W, key, value, i, nd, nested_field_key) ==
    IF r.err THEN r
    ELSE IF DictHas(r.fd, nested_field_key)
    THEN RenderNested([r EXCEPT !.fd = DictDel(@, nested_field_key)], W, key, value,
                      i + 1, DictSet(nd, value.kv[i].k, DictGet(r.fd, nested_field_key)))
    ELSE RenderNested(r, W, key, value, i + 1, nd)

\* nested_field_key = f"{key}_{nested_key}"
NestedFieldKey(key, nested_key) == PyStr(key.s \o <<"_">> \o ToStr(nested_key))

\* _render_nested_object(key, value, label): the loop from sub-key i on,
\* nested_data so far in nd
RenderNested(rs, W, key, value, i, nd) ==
    IF rs.err THEN rs
    ELSE IF i > Len(value.kv)
    THEN IF Truthy(nd) THEN [rs EXCEPT !.fd = DictSet(@, key, nd)] ELSE rs
    ELSE NestedNext(_render_field(rs, W, NestedFieldKey(key, value.kv[i].k), value.kv[i].v),
                    W, key, value, i, nd, NestedFieldKey(key, value.kv[i].k))

\* _render_field that tests for a number before it tests for a boolean
_render_field_NumberFirst(rs, W, key, value) ==
    IF rs.err THEN rs
    ELSE IF ~IsStr(key) THEN Raise(rs)
    ELSE IF IsStr(value)
    THEN LET w == TextInput(FIELD_PREFIX \o key.s, value)
             result == WidgetValue(W, w)
         IN  IF IsDuplicate(rs, w) THEN Raise(rs)
             ELSE IF Truthy(result) THEN [Create(rs, w) EXCEPT !.fd = DictSet(@, key, result)]
             ELSE Create(rs, w)
    ELSE IF IsIntOrFloat(value)
    THEN LET w == NumberInput(NUM_PREFIX \o key.s, value)
         IN  IF IsDuplicate(rs, w) THEN Raise(rs)
             ELSE [Create(rs, w) EXCEPT !.fd = DictSet(@, key, WidgetValue(W, w))]
    ELSE IF IsBool(value)
    THEN LET w == Checkbox(BOOL_PREFIX \o key.s, value)
         IN  IF IsDuplicate(rs, w) THEN Raise(rs)
             ELSE [Create(rs, w) EXCEPT !.fd = DictSet(@, key, WidgetValue(W, w))]
    ELSE IF IsList(value) /\ \A i \in 1..Len(value.items) : IsStr(value.items[i])
    THEN LET w == Multiselect(MULTI_PREFIX \o key.s, value.items)
             result == WidgetValue(W, w)
         IN  IF IsDuplicate(rs, w) THEN Raise(rs)
             ELSE IF Truthy(result) THEN [Create(rs, w) EXCEPT !.fd = DictSet(@, key, result)]
             ELSE Create(rs, w)
    ELSE IF IsDict(value) /\ _is_category_structure(value)
    THEN IF \E i \in 1..Len(value.kv) : ~IsStr(value.kv[i].k) THEN Raise(rs)
         ELSE RenderTabs(rs, W, key, value, 1, EmptyDict)
    ELSE IF IsDict(value)
    THEN RenderNested(rs, W, key, value, 1, EmptyDict)
    ELSE rs

\* _render_field(key, value); key.replace raises for a key that is no str
_render_field(rs, W, key, value) ==
    IF rs.err THEN rs
    ELSE IF ~IsStr(key) THEN Raise(rs)
    ELSE IF IsStr(value)
    THEN LET w == TextInput(FIELD_PREFIX \o key.s, value)
             result == WidgetValue(W, w)
         IN  IF IsDuplicate(rs, w) THEN Raise(rs)
             ELSE IF Truthy(result) THEN [Create(rs, w) EXCEPT !.fd = DictSet(@, key, result)]
             ELSE Create(rs, w)
    ELSE IF IsBool(value)
    THEN LET w == Checkbox(BOOL_PREFIX \o key.s, value)
         IN  IF IsDuplicate(rs, w) THEN Raise(rs)
             ELSE [Create(rs, w) EXCEPT !.fd = DictSet(@, key, WidgetValue(W, w))]
    ELSE IF IsIntOrFloat(value)
    THEN LET w == NumberInput(NUM_PREFIX \o key.s, value)
         IN  IF IsDuplicate(rs, w) THEN Raise(rs)
             ELSE [Create(rs, w) EXCEPT !.fd = DictSet(@, key, WidgetValue(W, w))]
    ELSE IF IsList(value) /\ \A i \in 1..Len(value.items) : IsStr(value.items[i])
    THEN LET w == Multiselect(MULTI_PREFIX \o key.s, value.items)
             result == WidgetValue(W, w)
         IN  IF IsDuplicate(rs, w) THEN Raise(rs)
             ELSE IF Truthy(result) THEN [Create(rs, w) EXCEPT !.fd = DictSet(@, key, result)]
             ELSE Create(rs, w)
    ELSE IF IsDict(value) /\ _is_category_structure(value)
    THEN IF \E i \in 1..Len(value.kv) : ~IsStr(value.kv[i].k) THEN Raise(rs)
         ELSE RenderTabs(rs, W, key, value, 1, EmptyDict)
    ELSE IF IsDict(value)
    THEN RenderNested(rs, W, key, value, 1, EmptyDict)
    ELSE rs

RECURSIVE RenderFields(_, _, _, _)
\* for key, value in project_data.items(): self._render_field(key, value)
RenderFields(rs, W, project_data, i) ==
    IF i > Len(project_data.kv) THEN rs
    ELSE RenderFields(_render_field(rs, W, project_data.kv[i].k, project_data.kv[i].v),
                      W, project_data, i + 1)

\* what render_form leaves and returns when its loop ended in rs
PassResult(self, rs) ==
    [self |-> [self EXCEPT !.form_data = rs.fd],
     ret |-> IF rs.err THEN None ELSE rs.fd,
     ws |-> rs.ws, raised |-> rs.err]

\* project_data = self.template[self.root_key] if self.root_key else self.template
ProjectData(self) ==
    IF Truthy(self.root_key) THEN DictGet(self.template, self.root_key) ELSE self.template

\* render_form(): [self, ret, ws, raised].  A falsy template returns {}
\* and leaves form_data as it was.  A template that is no dict raises:
\* indexing it by a root key before form_data is reset, .items() after.
render_form(self, W) ==
    IF ~Truthy(self.template)
    THEN [self |-> self, ret |-> EmptyDict, ws |-> {}, raised |-> FALSE]
    ELSE IF ~IsDict(self.template)
    THEN [self |-> IF Truthy(self.root_key) THEN self
                   ELSE [self EXCEPT !.form_data = EmptyDict],
          ret |-> None, ws |-> {}, raised |-> TRUE]
    ELSE IF Truthy(self.root_key) /\ ~DictHas(self.template, self.root_key)
    THEN [self |-> self, ret |-> None, ws |-> {}, raised |-> TRUE]
    ELSE PassResult(self, RenderFields(Pass(EmptyDict), W, ProjectData(self), 1))

\* get_structured_data without its early return for an empty form state
get_structured_data_NoEarlyReturn(self) ==
    LET present == SelectSeq(self.key_order, LAMBDA k : DictHas(self.form_data, k))
        ordered_data == PyDict([i \in 1..Len(present) |->
                                   Entry(present[i], DictGet(self.form_data, present[i]))])
        rest == SelectSeq(self.form_data.kv, LAMBDA e : ~DictHas(ordered_data, e.k))
        updated == PyDict(ordered_data.kv \o rest)
    IN  IF Truthy(self.root_key)
        THEN PyDict(<<Entry(self.root_key, updated)>>)
        ELSE updated

\* get_structured_data()
get_structured_data(self) ==
    IF ~Truthy(self.form_data) THEN EmptyDict
    ELSE LET present == SelectSeq(self.key_order, LAMBDA k : DictHas(self.form_data, k))
             ordered_data == PyDict([i \in 1..Len(present) |->
                                        Entry(present[i], DictGet(self.form_data, present[i]))])
             rest == SelectSeq(self.form_data.kv, LAMBDA e : ~DictHas(ordered_data, e.k))
             updated == PyDict(ordered_data.kv \o rest)
         IN  IF Truthy(self.root_key)
             THEN PyDict(<<Entry(self.root_key, updated)>>)
             ELSE updated

-----------------------------------------------------------------------------
(* ExportUtils *)

\* export_yaml(data): the lines of the text returned
export_yaml(data) ==
    IF ~Truthy(data) THEN <<NO_DATA_TEXT>>
    ELSE _clean_yaml_quotes(YamlDump(data))

\* _quote_if_needed that does not look for a line break
_quote_if_needed_NoNewline(cell) ==
    LET needs_quotes == "," \in Range(cell) \/ "\"" \in Range(cell)
    IN  IF needs_quotes
        THEN <<"\"">> \o DoubleQuotes(cell, "\"") \o <<"\"">>
        ELSE cell

\* _quote_if_needed(cell)
_quote_if_needed(cell) ==
    LET needs_quotes == "," \in Range(cell) \/ "\"" \in Range(cell) \/ "\n" \in Range(cell)
    IN  IF needs_quotes
        THEN <<"\"">> \o DoubleQuotes(cell, "\"") \o <<"\"">>
        ELSE cell

RECURSIVE _flatten_data(_, _, _)
RECURSIVE FlattenFrom(_, _, _, _)

\* _flatten_data(data, rows, prefix): rows with the rows of data appended
_flatten_data(data, rows, prefix) == FlattenFrom(data, rows, prefix, 1)

\* the loop of _flatten_data from entry i on
FlattenFrom(data, rows, prefix, i) ==
    IF i > Len(data.kv) THEN rows
    ELSE LET key == data.kv[i].k
             value == data.kv[i].v
             path == IF Truthy(prefix)
                     THEN PyStr(ToStr(prefix) \o <<".">> \o ToStr(key))
                     ELSE key
             next == IF IsDict(value) THEN _flatten_data(value, rows, path)
                     ELSE IF IsList(value)
                     THEN rows \o [j \in 1..Len(value.items) |-> <<path, value.items[j]>>]
                     ELSE Append(rows, <<path, value>>)
         IN  FlattenFrom(data, next, prefix, i + 1)

HeaderRow == <<PyStr(<<"k", "e", "y", "_", "p", "a", "t", "h">>),
               PyStr(<<"v", "a", "l", "u", "e">>)>>

\* export_csv(data): the text returned, a sequence of characters
export_csv(data) ==
    IF ~Truthy(data) THEN <<>>
    ELSE LET rows == _flatten_data(data, <<HeaderRow>>, PyStr(<<>>))
         IN  Join([r \in 1..Len(rows) |->
                      Join([c \in 1..2 |-> _quote_if_needed(ToStr(rows[r][c]))], <<",">>)],
                  <<"\n">>)

\* validate_yaml that parses what yaml.dump wrote, before the quote cleanup
validate_yaml_BeforeCleanup(data) ==
    IF ~Truthy(data) THEN <<False, "No data to validate">>
    ELSE LET yaml_output == export_yaml(data)
         IN  IF yaml_output = <<NO_DATA_TEXT>> THEN <<False, "No data to validate">>
             ELSE IF SafeLoad(YamlDump(data)).ok THEN <<True, "YAML is valid">>
             ELSE <<False, "YAML validation error">>

\* validate_yaml(data): <<valid, message>>; the messages are the three
\* categories
validate_yaml(data) ==
    IF ~Truthy(data) THEN <<False, "No data to validate">>
    ELSE LET yaml_output == export_yaml(data)
         IN  IF yaml_output = <<NO_DATA_TEXT>> THEN <<False, "No data to validate">>
             ELSE IF SafeLoad(yaml_output).ok THEN <<True, "YAML is valid">>
             ELSE <<False, "YAML validation error">>

-----------------------------------------------------------------------------
(* The inputs of the generator's life cycle *)

MaxEditLen == 0

KeyA == PyStr(<<"a">>)
KeyB == PyStr(<<"b">>)
FieldKeys == {KeyA, KeyB}
KeyR == PyStr(<<"r">>)
\* the empty string is a key YAML allows
KeyEmpty == PyStr(<<>>)
TextN == PyStr(<<"n">>)

\* the dicts over some of the keys, in any order, values from V
DictsOver(keys, V) ==
    LET KeySeqs == UNION {{q \in [1..n -> keys] : \A i, j \in 1..n : i /= j => q[i] /= q[j]} :
                             n \in 0..Cardinality(keys)}
    IN  UNION {{PyDict([i \in 1..Len(q) |-> Entry(q[i], f[i])]) : f \in [1..Len(q) -> V]} :
                  q \in KeySeqs}

\* the templates: flat ones of text fields; flat ones under the wrapper key
\* r, one under the empty wrapper key and one under a; two keys that both
\* hold mappings, which is no wrapper
Templates ==
    LET Flat == DictsOver(FieldKeys, {TextN})
    IN  Flat
        \cup {PyDict(<<Entry(KeyR, f)>>) : f \in Flat}
        \cup {PyDict(<<Entry(KeyEmpty, PyDict(<<Entry(KeyA, TextN)>>))>>),
              PyDict(<<Entry(KeyA, PyDict(<<Entry(KeyB, TextN)>>))>>)}
        \cup {PyDict(<<Entry(KeyA, PyDict(<<Entry(KeyB, TextN)>>)),
                       Entry(KeyB, PyDict(<<Entry(KeyA, TextN)>>))>>)}

\* Project: {name: Demo, version: 1, enabled: true, tags: [a, b]}
ProjectTemplate ==
    LET Project == PyStr(<<"P", "r", "o", "j", "e", "c", "t">>)
        name == PyStr(<<"n", "a", "m", "e">>)
        version == PyStr(<<"v", "e", "r", "s", "i", "o", "n">>)
        enabled == PyStr(<<"e", "n", "a", "b", "l", "e", "d">>)
        tags == PyStr(<<"t", "a", "g", "s">>)
        Demo == PyStr(<<"D", "e", "m", "o">>)
    IN  PyDict(<<Entry(Project,
                       PyDict(<<Entry(name, Demo), Entry(version, PyInt(1)),
                                Entry(enabled, True),
                                Entry(tags, PyList(<<PyStr(<<"a">>), PyStr(<<"b">>)>>))>>))>>)

\* "a: b: [": a syntax error
InvalidYaml == << <<"a", ":", " ", "b", ":", " ", "[">> >>
\* a sequence, a scalar, nothing
ListYaml == << <<"-", " ", "n">>, <<"-", " ", "o">> >>
ScalarYaml == << <<"n">> >>
EmptyYaml == << >>
NonMappingYaml == {ListYaml, ScalarYaml, EmptyYaml}

\* the YAML texts offered to load_template
Contents == {YamlDump(t) : t \in Templates \ {EmptyDict}} \cup {<< <<"{", "}">> >>}
            \cup {InvalidYaml} \cup NonMappingYaml
\* the texts of a session over the Project template
ProjectContents == {YamlDump(ProjectTemplate), ListYaml}

\* what a user may enter into a widget
EditTexts == {PyStr([i \in 1..n |-> "o"]) : n \in 0..MaxEditLen}
Choices(w) ==
    CASE w.kind = "text_input" -> EditTexts
      [] w.kind = "checkbox" -> {True, False}
      [] w.kind = "number_input" -> {w.param}
      [] w.kind = "multiselect" ->
           {PyList(q) : q \in UNION {{x \in [1..n -> Range(w.param.items)] :
                                         \A i, j \in 1..n : i /= j => x[i] /= x[j]} :
                                        n \in 0..Len(w.param.items)}}

-----------------------------------------------------------------------------
(* The life cycle of one generator *)

\* st.session_state before the first script run of a session: no key
NoSession == <<>>

Self == [template |-> template, root_key |-> root_key,
         key_order |-> key_order, form_data |-> form_data]

Raised == [t |-> "raised"]

Init ==
    /\ template = NewGenerator.template
    /\ root_key = NewGenerator.root_key
    /\ key_order = NewGenerator.key_order
    /\ form_data = NewGenerator.form_data
    /\ widgets = <<>>
    /\ op = "init"
    /\ arg = None
    /\ out = None
    /\ session = NoSession

Assign(self) ==
    /\ template' = self.template
    /\ root_key' = self.root_key
    /\ key_order' = self.key_order
    /\ form_data' = self.form_data

\* the state after load_template(content) ended as r
AfterLoad(r, content) ==
    /\ Assign(r.self)
    /\ op' = "load_template"
    /\ arg' = content
    /\ out' = r.ret
    /\ UNCHANGED <<widgets, session>>

\* generator.load_template(content)
LoadTemplate(content) == AfterLoad(load_template(Self, content), content)

\* the state after a render pass over the widget values W that ended as r:
\* the widgets it created hold their values afterwards
AfterPass(r, W) ==
    /\ Assign(r.self)
    /\ widgets' = [w \in r.ws |-> WidgetValue(W, w)]
    /\ op' = "render_form"
    /\ out' = IF r.raised THEN Raised ELSE r.ret
    /\ UNCHANGED session

\* one render pass over the widget values W
RenderPass(W) == AfterPass(render_form(Self, W), W)

\* generator.render_form() in a script run that no widget triggered
RenderForm ==
    /\ RenderPass(widgets)
    /\ arg' = None

\* the user enters x into widget w of the last pass: the script reruns
\* and renders the form over the new value
UserEdit(w, x) ==
    /\ x /= widgets[w]
    /\ RenderPass([widgets EXCEPT ![w] = x])
    /\ arg' = x

\* generator.get_structured_data()
GetStructuredData ==
    /\ op' = "get_structured_data"
    /\ arg' = None
    /\ out' = get_structured_data(Self)
    /\ UNCHANGED <<template, root_key, key_order, form_data, widgets, session>>

\* the preview: ExportUtils.export_yaml(generator.get_structured_data())
Preview ==
    /\ op' = "preview"
    /\ arg' = get_structured_data(Self)
    /\ out' = export_yaml(get_structured_data(Self))
    /\ UNCHANGED <<template, root_key, key_order, form_data, widgets, session>>

\* the steps of a session whose loads draw from the texts C
Session(C) ==
    \/ \E content \in C : LoadTemplate(content)
    \/ RenderForm
    \/ \E w \in DOMAIN widgets : \E x \in Choices(w) : UserEdit(w, x)
    \/ GetStructuredData
    \/ Preview

Next == Session(Contents)

Spec == Init /\ [][Next]_vars

ProjectNext == Session(ProjectContents)

ProjectSpec == Init /\ [][ProjectNext]_vars

-----------------------------------------------------------------------------
(* Sessions over templates with fields of every kind *)

KeyAB == PyStr(<<"a", "_", "b">>)

\* the templates of the forms: text, checkbox and number fields, with the
\* values False and 0; a multi-select; a panel beside a field; panels in
\* panels under a wrapper key; a panel with sub-key b beside a field named
\* a_b, in both orders and with fields of one kind; a category mapping;
\* values no rule matches, as fields and as sub-keys of a panel
FormTemplates ==
    LET TextO == PyStr(<<"o">>)
        Panel(v) == PyDict(<<Entry(KeyB, v)>>)
        Items == PyDict(<<Entry(KeyA, PyList(<<PyDict(<<Entry(NameKey, TextN),
                                                         Entry(CodeKey, TextO)>>)>>)),
                          Entry(KeyB, PyList(<<PyDict(<<Entry(NameKey, TextO)>>)>>))>>)
    IN  {PyDict(<<Entry(KeyA, TextN), Entry(KeyB, True)>>),
         PyDict(<<Entry(KeyA, PyInt(0)), Entry(KeyB, False)>>),
         PyDict(<<Entry(KeyA, PyList(<<TextN, TextO>>)), Entry(KeyB, PyInt(1))>>),
         PyDict(<<Entry(KeyA, PyDict(<<Entry(KeyB, TextN), Entry(KeyA, False)>>)),
                  Entry(KeyB, TextN)>>),
         PyDict(<<Entry(KeyR, PyDict(<<Entry(KeyA, Panel(PyDict(<<Entry(KeyA, PyInt(0))>>)))>>))>>),
         PyDict(<<Entry(KeyAB, True), Entry(KeyA, Panel(TextN))>>),
         PyDict(<<Entry(KeyA, Panel(TextN)), Entry(KeyAB, True)>>),
         PyDict(<<Entry(KeyAB, TextN), Entry(KeyA, Panel(TextN))>>),
         PyDict(<<Entry(KeyA, Items), Entry(KeyB, TextN)>>),
         PyDict(<<Entry(KeyA, None), Entry(KeyB, PyList(<<PyInt(1)>>))>>),
         PyDict(<<Entry(KeyAB, True), Entry(KeyA, Panel(None))>>),
         PyDict(<<Entry(KeyA, Panel(PyList(<<TextN, PyInt(1)>>))), Entry(KeyB, TextN)>>)}

FormContents == {YamlDump(t) : t \in FormTemplates}

\* the steps of a session of forms: loads, script runs and edits
FormNext ==
    \/ \E content \in FormContents : LoadTemplate(content)
    \/ RenderForm
    \/ \E w \in DOMAIN widgets : \E x \in Choices(w) : UserEdit(w, x)

FormSpec == Init /\ [][FormNext]_vars

-----------------------------------------------------------------------------
(* The session: UIComponents over st.session_state.  One script run is    *)
(* initialize_session_state, render_template_loader, render_form and       *)
(* render_preview_section, in the order of main(); _rerun_app() stops the  *)
(* run where it is called and a new run follows.  The generator of the     *)
(* session is the object whose fields are template, root_key, key_order    *)
(* and form_data; the keys of the widgets live in widgets.                 *)

MaxClears == 2

\* the FormGenerator object, a placeholder made by st.empty(), a message
GeneratorRef == [t |-> "FormGenerator"]
Placeholder == [t |-> "placeholder"]
Message(text) == [t |-> "message", text |-> text]

\* session_defaults
SessionDefaults ==
    [form_generator |-> GeneratorRef,
     upload_placeholder |-> None,
     message_placeholder |-> None,
     uploaded_file |-> None,
     file_uploader_key |-> PyInt(0),
     selected_template |-> None,
     yaml_validation_status |-> None,
     yaml_is_valid |-> False]

\* initialize_session_state(): a key the store lacks gets its default
initialize_session_state(ss) ==
    [key \in DOMAIN SessionDefaults |->
        IF key \in DOMAIN ss THEN ss[key] ELSE SessionDefaults[key]]

\* the files of the templates directory, by name, and the files a user may
\* upload: a mapping, a text that does not parse, the empty mapping {}
TemplateFiles ==
    [name \in {<<"t">>, <<"l">>} |->
        IF name = <<"t">>
        THEN YamlDump(PyDict(<<Entry(KeyA, TextN), Entry(KeyB, True)>>))
        ELSE ListYaml]
Uploads ==
    {[name |-> <<"u">>, content |-> YamlDump(PyDict(<<Entry(KeyB, TextN)>>))],
     [name |-> <<"i">>, content |-> InvalidYaml],
     [name |-> <<"e">>, content |-> << <<"{", "}">> >>]}

\* st.selectbox and st.file_uploader of the upload form, their keys ending
\* in file_uploader_key
Selectbox(n) ==
    [key |-> <<"t", "e", "m", "p", "l", "a", "t", "e", "_", "s", "e", "l", "e", "c", "t",
               "o", "r", "_">> \o DecStr(n),
     kind |-> "selectbox",
     param |-> PyList(<<PyStr(<<>>), PyStr(<<"l">>), PyStr(<<"t">>)>>)]
FileUploader(n) ==
    [key |-> <<"f", "i", "l", "e", "_", "u", "p", "l", "o", "a", "d", "e", "r", "_">> \o DecStr(n),
     kind |-> "file_uploader",
     param |-> None]

\* a script run in progress: the store, the generator, the widget values,
\* the widgets made so far, what render_form returned, and how the run
\* stopped early: by "rerun" or by "raised"
Run(ss, gen, W) == [ss |-> ss, gen |-> gen, W |-> W, ws |-> {}, ret |-> EmptyDict, stop |-> ""]

\* app.load_template(content) in a handler returned r; _on_template_loaded
\* reruns
OnLoad(st, r) ==
    [st EXCEPT !.gen = r.self, !.stop = IF r.ret = True THEN "rerun" ELSE @]

\* _handle_template_selection that does not record what it has loaded
_handle_template_selection_NoRecord(st, selected_template, uploaded) ==
    IF Truthy(selected_template) /\ selected_template /= st.ss.selected_template
    THEN OnLoad(st, load_template(st.gen, TemplateFiles[selected_template.s]))
    ELSE IF uploaded /= None /\ uploaded /= st.ss.uploaded_file
    THEN OnLoad(st, load_template(st.gen, uploaded.content))
    ELSE IF uploaded = None /\ st.ss.uploaded_file /= None
    THEN [st EXCEPT !.ss.uploaded_file = None]
    ELSE st

\* _handle_template_selection(selected_template, uploaded)
_handle_template_selection(st, selected_template, uploaded) ==
    IF Truthy(selected_template) /\ selected_template /= st.ss.selected_template
    THEN OnLoad([st EXCEPT !.ss.selected_template = selected_template],
                load_template(st.gen, TemplateFiles[selected_template.s]))
    ELSE IF uploaded /= None /\ uploaded /= st.ss.uploaded_file
    THEN OnLoad([st EXCEPT !.ss.uploaded_file = uploaded],
                load_template(st.gen, uploaded.content))
    ELSE IF uploaded = None /\ st.ss.uploaded_file /= None
    THEN [st EXCEPT !.ss.uploaded_file = None]
    ELSE st

\* _render_upload_form(): the placeholders are made if there are none, the
\* two widgets return their values
_render_upload_form(st) ==
    _handle_template_selection(
        [st EXCEPT !.ss.upload_placeholder = IF @ = None THEN Placeholder ELSE @,
                   !.ss.message_placeholder = IF @ = None THEN Placeholder ELSE @,
                   !.ws = @ \cup {Selectbox(st.ss.file_uploader_key.n),
                                  FileUploader(st.ss.file_uploader_key.n)}],
        WidgetValue(st.W, Selectbox(st.ss.file_uploader_key.n)),
        WidgetValue(st.W, FileUploader(st.ss.file_uploader_key.n)))

\* key.startswith(prefixes)
StartsWith(key, prefixes) ==
    \E prefix \in prefixes : Len(key) >= Len(prefix) /\ SubSeq(key, 1, Len(prefix)) = prefix

\* the prefixes of _clear_form
ClearedPrefixes ==
    {FIELD_PREFIX, BOOL_PREFIX, NUM_PREFIX, MULTI_PREFIX, CAT_PREFIX,
     <<"f", "i", "l", "e", "_", "u", "p", "l", "o", "a", "d", "e", "r", "_">>,
     <<"t", "e", "m", "p", "l", "a", "t", "e", "_", "s", "e", "l", "e", "c", "t", "o", "r", "_">>}

\* _clear_form that deletes no widget key
_clear_form_KeepKeys(st) ==
    [st EXCEPT
        !.gen = NewGenerator,
        !.ss = [@ EXCEPT !.form_generator = GeneratorRef,
                         !.uploaded_file = None,
                         !.selected_template = None,
                         !.yaml_validation_status = None,
                         !.yaml_is_valid = False,
                         !.file_uploader_key = PyInt(@.n + 1),
                         !.upload_placeholder = None,
                         !.message_placeholder = None],
        !.stop = "rerun"]

\* _clear_form that leaves file_uploader_key as it is
_clear_form_SameKey(st) ==
    [st EXCEPT
        !.gen = NewGenerator,
        !.ss = [@ EXCEPT !.form_generator = GeneratorRef,
                         !.uploaded_file = None,
                         !.selected_template = None,
                         !.yaml_validation_status = None,
                         !.yaml_is_valid = False,
                         !.upload_placeholder = None,
                         !.message_placeholder = None],
        !.W = [w \in {x \in DOMAIN @ : ~StartsWith(x.key, ClearedPrefixes)} |-> @[w]],
        !.stop = "rerun"]

\* _clear_form()
_clear_form(st) ==
    [st EXCEPT
        !.gen = NewGenerator,
        !.ss = [@ EXCEPT !.form_generator = GeneratorRef,
                         !.uploaded_file = None,
                         !.selected_template = None,
                         !.yaml_validation_status = None,
                         !.yaml_is_valid = False,
                         !.file_uploader_key = PyInt(@.n + 1),
                         !.upload_placeholder = None,
                         !.message_placeholder = None],
        !.W = [w \in {x \in DOMAIN @ : ~StartsWith(x.key, ClearedPrefixes)} |-> @[w]],
        !.stop = "rerun"]

\* render_template_loader(), the Clear Form button clicked or not
render_template_loader(st, clicked) ==
    IF ~Truthy(st.gen.template) THEN _render_upload_form(st)
    ELSE IF clicked = "clear" THEN _clear_form(st)
    ELSE st

\* form_data = app.render_form() ended as r
FormRendered(st, r) ==
    [st EXCEPT !.gen = r.self, !.ws = @ \cup r.ws, !.ret = r.ret,
               !.stop = IF r.raised THEN "raised" ELSE @]

\* the Validate YAML button of _render_export_controls was clicked
Validated(st, result) ==
    [st EXCEPT !.ss.yaml_is_valid = result[1],
               !.ss.yaml_validation_status = Message(result[2]),
               !.stop = "rerun"]

\* render_preview_section(form_data)
render_preview_section(st, clicked) ==
    IF st.stop = "" /\ Truthy(st.ret) /\ clicked = "validate"
    THEN Validated(st, validate_yaml(get_structured_data(st.gen)))
    ELSE st

\* the run from render_form on
RenderSections(st, clicked) ==
    IF st.stop /= "" THEN st
    ELSE render_preview_section(FormRendered(st, render_form(st.gen, st.W)), clicked)

\* main(): one script run
main(ss, gen, W, clicked) ==
    RenderSections(render_template_loader(Run(initialize_session_state(ss), gen, W), clicked),
                   clicked)

\* the state a script run that ended as st leaves: a run that reached its
\* end keeps the values of the widgets it made, a run stopped early those
\* of all widgets
AfterRun(st, event) ==
    /\ session' = st.ss
    /\ Assign(st.gen)
    /\ widgets' = [w \in (IF st.stop = "" THEN st.ws ELSE st.ws \cup DOMAIN st.W) |->
                      WidgetValue(st.W, w)]
    /\ op' = IF st.stop = "rerun" THEN "rerun" ELSE "script_run"
    /\ arg' = event
    /\ out' = IF st.stop = "raised" THEN Raised ELSE st.ret

\* a script run that no widget triggered: the first of a session, the one a
\* rerun asks for, a reload of the page
ScriptRun ==
    AfterRun(main(session, Self, widgets, ""), [e |-> "run"])

\* the user changes widget w to x: a form field, the selected template, the
\* uploaded file
Change(w, x) ==
    /\ op /= "rerun"
    /\ x /= widgets[w]
    /\ AfterRun(main(session, Self, [widgets EXCEPT ![w] = x], ""),
                [e |-> "change", key |-> w.key, value |-> x])

\* the user clicks Clear Form, shown when a template is loaded
ClickClear ==
    /\ op \notin {"init", "rerun"}
    /\ Truthy(template)
    /\ session.file_uploader_key.n < MaxClears
    /\ AfterRun(main(session, Self, widgets, "clear"), [e |-> "clear"])

\* the user clicks Validate YAML, shown when the form state holds entries
ClickValidate ==
    /\ op = "script_run"
    /\ out /= Raised
    /\ Truthy(out)
    /\ AfterRun(main(session, Self, widgets, "validate"), [e |-> "validate"])

\* what a user may choose in a widget of the page
PageChoices(w) ==
    CASE w.kind = "selectbox" -> Range(w.param.items)
      [] w.kind = "file_uploader" -> Uploads \cup {None}
      [] OTHER -> Choices(w)

SessionNext ==
    \/ ScriptRun
    \/ \E w \in DOMAIN widgets : \E x \in PageChoices(w) : Change(w, x)
    \/ ClickClear
    \/ ClickValidate

SessionSpec == Init /\ [][SessionNext]_vars

\* the script run that st.rerun() has asked for
Rerun == op = "rerun" /\ ScriptRun

\* Streamlit runs the script again whenever a run has asked for a rerun:
\* weak fairness of Rerun, WF_vars(Rerun), written out with the guard of
\* Rerun for ENABLED <<Rerun>>_vars (a script run is possible in every
\* state, and the run after a rerun changes op or arg)
RerunIsFair == []<>(op /= "rerun") \/ []<><<Rerun>>_vars

SessionLiveSpec == SessionSpec /\ RerunIsFair

-----------------------------------------------------------------------------
(* The inputs of ExportUtils: its functions are static and take any data *)

MaxStrLen == 2
MaxCellLen == 2
MaxItems == 2

\* the strings over the alphabet of length up to n
StringsOver(alphabet, n) == UNION {[1..k -> alphabet] : k \in 0..n}

\* form states: a field that holds a string a user may type, a boolean, a
\* number, a selection or a category mapping; two fields; a field under a
\* root key
FormStates ==
    LET Strings == {PyStr(s) : s \in StringsOver({"n", "o", "1", "'"}, MaxStrLen)}
        Scalars == Strings \cup {True, False, PyInt(1), PyInt(12)}
        Values == Scalars
                  \cup {PyList(<<v>>) : v \in Strings}
                  \cup {PyDict(<<Entry(KeyB, PyList(<<v>>))>>) : v \in Strings}
    IN  {PyDict(<<Entry(KeyA, v)>>) : v \in Values}
        \cup {PyDict(<<Entry(KeyA, v), Entry(KeyB, TextN)>>) : v \in Scalars}
        \cup {PyDict(<<Entry(KeyR, PyDict(<<Entry(KeyA, v)>>))>>) : v \in Scalars}

\* the cells of a CSV row
Cells == {PyStr(s) : s \in StringsOver({"a", ",", "\"", "\n"}, MaxCellLen)}

\* the data export_csv walks: scalars, sequences and nested mappings under
\* one key or two
CsvData ==
    LET x == PyStr(<<"x">>)
        y == PyStr(<<"y">>)
        Keys == {KeyEmpty, KeyA, KeyB}
        Leaves == {x, PyStr(<<"x", ",">>), PyInt(1), True}
                  \cup {PyList(q) : q \in StringsOver({x, y}, MaxItems)}
        Inner == {PyDict(<<Entry(k, v)>>) : k \in {KeyEmpty, KeyA}, v \in Leaves}
                 \cup {PyDict(<<Entry(KeyA, x), Entry(KeyB, PyList(<<x, y>>))>>),
                       PyDict(<<Entry(KeyB, PyDict(<<Entry(KeyA, x)>>))>>)}
    IN  {PyDict(<<Entry(k, v)>>) : k \in Keys, v \in Leaves \cup Inner}
        \cup {PyDict(<<Entry(k[1], v), Entry(k[2], y)>>) :
                 k \in {q \in Keys \X Keys : q[1] /= q[2]}, v \in Inner}

\* form states whose text yaml.dump has to quote: a double quote, an open
\* bracket, "- n" and "n: o"
QuotedStates ==
    {PyDict(<<Entry(KeyA, PyStr(s))>>) :
        s \in {<<"\"">>, <<"[">>, <<"-", " ", "n">>, <<"n", ":", " ", "o">>}}

\* the YAML texts given to _clean_yaml_quotes: lines "a: s" with the scalar
\* s (true, false, 123, text or n) plain, double-quoted or single-quoted,
\* alone and as the two or three lines of one text
YamlTexts ==
    LET Scalars == {<<"t", "r", "u", "e">>, <<"f", "a", "l", "s", "e">>, <<"1", "2", "3">>,
                    <<"t", "e", "x", "t">>, <<"n">>}
        Line(q, x) == <<"a", ":", " ">> \o q \o x \o q
        Lines == {Line(q, x) : q \in {<<>>, <<"\"">>, <<"'">>}, x \in Scalars}
        Test == {Line(<<"\"">>, x) : x \in {<<"t", "r", "u", "e">>, <<"1", "2", "3">>,
                                            <<"t", "e", "x", "t">>}}
    IN  {[t |-> "text", lines |-> <<l>>] : l \in Lines}
        \cup {[t |-> "text", lines |-> <<l, m>>] : l \in Test, m \in Test}
        \cup {[t |-> "text",
               lines |-> <<Line(<<"\"">>, <<"t", "r", "u", "e">>),
                           Line(<<"\"">>, <<"1", "2", "3">>),
                           Line(<<"\"">>, <<"t", "e", "x", "t">>)>>]}

ExportInputs ==
    {EmptyDict} \cup FormStates \cup QuotedStates \cup CsvData \cup Cells \cup YamlTexts

-----------------------------------------------------------------------------
(* ExportUtils applied to the inputs *)

ExportInit ==
    /\ template = NewGenerator.template
    /\ root_key = NewGenerator.root_key
    /\ key_order = NewGenerator.key_order
    /\ form_data = NewGenerator.form_data
    /\ widgets = <<>>
    /\ op = "init"
    /\ arg \in ExportInputs
    /\ out = None
    /\ session = NoSession

\* ExportUtils.export_yaml(arg)
ExportYaml ==
    /\ IsDict(arg)
    /\ op' = "export_yaml"
    /\ out' = export_yaml(arg)
    /\ UNCHANGED <<template, root_key, key_order, form_data, widgets, arg, session>>

\* ExportUtils.export_csv(arg)
ExportCsv ==
    /\ IsDict(arg)
    /\ op' = "export_csv"
    /\ out' = export_csv(arg)
    /\ UNCHANGED <<template, root_key, key_order, form_data, widgets, arg, session>>

\* ExportUtils._quote_if_needed(arg)
QuoteIfNeeded ==
    /\ IsStr(arg)
    /\ op' = "_quote_if_needed"
    /\ out' = _quote_if_needed(arg.s)
    /\ UNCHANGED <<template, root_key, key_order, form_data, widgets, arg, session>>

\* ExportUtils.validate_yaml(arg)
ValidateYaml ==
    /\ IsDict(arg)
    /\ op' = "validate_yaml"
    /\ out' = validate_yaml(arg)
    /\ UNCHANGED <<template, root_key, key_order, form_data, widgets, arg, session>>

\* ExportUtils._clean_yaml_quotes(arg), and the same method of
\* DynamicFormGenerator
CleanYamlQuotes ==
    /\ arg.t = "text"
    /\ op' = "_clean_yaml_quotes"
    /\ out' = _clean_yaml_quotes(arg.lines)
    /\ UNCHANGED <<template, root_key, key_order, form_data, widgets, arg, session>>

ExportNext == ExportYaml \/ ExportCsv \/ QuoteIfNeeded \/ ValidateYaml \/ CleanYamlQuotes

ExportSpec == ExportInit /\ [][ExportNext]_vars

-----------------------------------------------------------------------------
(* The helpers of FormGenerator, which read no field of the generator, *)
(* applied to any input                                                 *)

MaxEntries == 2

\* the mappings _is_category_structure is asked about: up to MaxEntries
\* entries under the keys a, b, r in any order; a value is a string, a
\* nested mapping, or a sequence: empty, of strings, of a mapping with or
\* without the key name, or with a named mapping that is not the first item
CategoryInputs ==
    LET Named == PyDict(<<Entry(NameKey, TextN)>>)
        Unnamed == PyDict(<<Entry(CodeKey, TextN)>>)
        V == {TextN, Named,
              PyList(<<>>), PyList(<<TextN>>), PyList(<<Named>>),
              PyList(<<Unnamed>>), PyList(<<TextN, Named>>)}
        Keys == {KeyA, KeyB, KeyR}
        KeySeqs == UNION {{q \in [1..n -> Keys] : \A i, j \in 1..n : i /= j => q[i] /= q[j]} :
                             n \in 0..MaxEntries}
    IN  UNION {{PyDict([i \in 1..Len(q) |-> Entry(q[i], f[i])]) : f \in [1..Len(q) -> V]} :
                  q \in KeySeqs}

\* the selections of a tab of two options: the options' indices, in the
\* order the user selected them
Selections == {<<>>, <<1>>, <<2>>, <<1, 2>>, <<2, 1>>}

\* the category tabs that are rendered: a category structure under the key
\* a with the tabs a and b, each of two items (named mappings with and
\* without a code, plain strings, a string beside a mapping of that name),
\* and the selection the user has made in each tab
TabInputs ==
    LET Coded == PyDict(<<Entry(NameKey, TextN), Entry(CodeKey, PyStr(<<"o">>))>>)
        Named == PyDict(<<Entry(NameKey, TextN)>>)
        Items == {<<Coded, Named>>, <<TextN, PyStr(<<"o">>)>>, <<TextN, Named>>}
        Values == {v \in {PyDict(<<Entry(KeyA, PyList(x)), Entry(KeyB, PyList(y))>>) :
                              x \in Items, y \in Items} : _is_category_structure(v)}
    IN  {[t |-> "tabs", key |-> KeyA, value |-> v, sel |-> <<p, q>>] :
            v \in Values, p \in Selections, q \in Selections}

\* the items _format_item_display is given: mappings with name and code in
\* either order, with one of them, with neither, with values that are no
\* strings; strings; a number, a boolean, null, a sequence
ItemInputs ==
    LET TextO == PyStr(<<"o">>)
        Items == {PyDict(<<Entry(NameKey, TextN), Entry(CodeKey, TextO)>>),
                  PyDict(<<Entry(CodeKey, TextO), Entry(NameKey, TextN)>>),
                  PyDict(<<Entry(NameKey, TextN)>>),
                  PyDict(<<Entry(CodeKey, TextO)>>),
                  PyDict(<<Entry(NameKey, TextN), Entry(KeyA, TextO)>>),
                  PyDict(<<Entry(NameKey, PyInt(1)), Entry(CodeKey, PyInt(2))>>),
                  PyDict(<<Entry(NameKey, TextN), Entry(CodeKey, None)>>),
                  PyDict(<<Entry(NameKey, PyStr(<<>>))>>),
                  EmptyDict,
                  TextN, PyStr(<<>>), PyStr(<<"n", " ", "(", "o", ")">>),
                  PyInt(1), True, None, PyList(<<TextN>>)}
    IN  {[t |-> "item", item |-> x] : x \in Items}

MaxNameLen == 4

\* the names _format_tab_name is given: the texts of up to MaxNameLen
\* letters, spaces and parentheses
NameInputs ==
    {[t |-> "name", s |-> x] : x \in StringsOver({"a", " ", "(", ")"}, MaxNameLen)}

HelperInputs == CategoryInputs \cup TabInputs \cup ItemInputs \cup NameInputs

HelperInit ==
    /\ template = NewGenerator.template
    /\ root_key = NewGenerator.root_key
    /\ key_order = NewGenerator.key_order
    /\ form_data = NewGenerator.form_data
    /\ widgets = <<>>
    /\ op = "init"
    /\ arg \in HelperInputs
    /\ out = None
    /\ session = NoSession

\* generator._is_category_structure(arg)
IsCategoryStructure ==
    /\ arg.t = "dict"
    /\ arg \in CategoryInputs
    /\ op' = "_is_category_structure"
    /\ out' = PyBool(_is_category_structure(arg))
    /\ UNCHANGED <<template, root_key, key_order, form_data, widgets, arg, session>>

\* what the multiselect w returns when the user has selected the options
\* at the indices sel
Selected(w, sel) == PyList([j \in 1..Len(sel) |-> w.param.items[sel[j]]])

\* the widget values of a run in which the user has made the selections of
\* the input in its tabs
TabSelections(in) ==
    LET w(i) == TabWidget(in.key, in.value.kv[i].k, in.value.kv[i].v)
    IN  [x \in {w(i) : i \in 1..Len(in.value.kv)} |->
            Selected(x, in.sel[CHOOSE i \in 1..Len(in.value.kv) : w(i) = x])]

\* what a pass that rendered the tabs only has stored under key, None for
\* no entry
StoredUnder(r, key) == IF DictHas(r.fd, key) THEN DictGet(r.fd, key) ELSE None

\* generator._render_category_tabs(key, value, label) of FormGenerator
RenderCategoryTabs ==
    /\ arg.t = "tabs"
    /\ op' = "_render_category_tabs"
    /\ widgets' = TabSelections(arg)
    /\ out' = StoredUnder(RenderTabs(Pass(EmptyDict), TabSelections(arg), arg.key,
                                     arg.value, 1, EmptyDict), arg.key)
    /\ UNCHANGED <<template, root_key, key_order, form_data, arg, session>>

\* generator._render_category_tabs(key, value, label) of DynamicFormGenerator
DynamicRenderCategoryTabs ==
    /\ arg.t = "tabs"
    /\ op' = "DynamicFormGenerator._render_category_tabs"
    /\ widgets' = TabSelections(arg)
    /\ out' = StoredUnder(DynamicRenderTabs(Pass(EmptyDict), TabSelections(arg), arg.key,
                                            arg.value, 1, EmptyDict), arg.key)
    /\ UNCHANGED <<template, root_key, key_order, form_data, arg, session>>

\* generator._format_item_display(arg)
FormatItemDisplay ==
    /\ arg.t = "item"
    /\ op' = "_format_item_display"
    /\ out' = PyStr(_format_item_display(arg.item))
    /\ UNCHANGED <<template, root_key, key_order, form_data, widgets, arg, session>>

\* generator._format_tab_name(arg)
FormatTabName ==
    /\ arg.t = "name"
    /\ op' = "_format_tab_name"
    /\ out' = PyStr(_format_tab_name(arg.s))
    /\ UNCHANGED <<template, root_key, key_order, form_data, widgets, arg, session>>

HelperNext ==
    \/ IsCategoryStructure
    \/ RenderCategoryTabs
    \/ DynamicRenderCategoryTabs
    \/ FormatItemDisplay
    \/ FormatTabName

HelperSpec == HelperInit /\ [][HelperNext]_vars

-----------------------------------------------------------------------------
(* load_template: C1 to C4 *)

\* the root of the document load_template was given
ParsedRoot == SafeLoad(arg)
\* a mapping with exactly one key whose value is itself a mapping
IsWrapped(v) == IsDict(v) /\ Len(v.kv) = 1 /\ IsDict(v.kv[1].v)

\* C1: when the parsed root is a mapping with exactly one key whose value is
\* a mapping, load_template returns True, root_key is that key and key_order
\* is the inner mapping's keys in their original order.
C1_WrappedLoad ==
    (op = "load_template" /\ ParsedRoot.ok /\ IsWrapped(ParsedRoot.v)) =>
        /\ out = True
        /\ root_key = ParsedRoot.v.kv[1].k
        /\ key_order = DictKeys(ParsedRoot.v.kv[1].v)

\* a wrapped template with two inner keys in the order b, a has been loaded
C1_Witness ==
    /\ op = "load_template"
    /\ out = True
    /\ root_key = KeyR
    /\ key_order = <<KeyB, KeyA>>
    /\ template = PyDict(<<Entry(KeyR, PyDict(<<Entry(KeyB, TextN), Entry(KeyA, TextN)>>))>>)

\* C2: when the parsed root is a mapping that is not a single key wrapping a
\* mapping, load_template returns True, root_key is None and key_order is the
\* top-level keys in their original order, whatever was loaded before.
C2_FlatLoad ==
    (op = "load_template" /\ ParsedRoot.ok /\ IsDict(ParsedRoot.v)
        /\ ~IsWrapped(ParsedRoot.v)) =>
        /\ out = True
        /\ root_key = None
        /\ key_order = DictKeys(ParsedRoot.v)

\* a flat template has been loaded over the form state a wrapped template
\* with the empty key left behind
C2_Witness ==
    /\ op = "load_template"
    /\ out = True
    /\ root_key = None
    /\ key_order = <<KeyB, KeyA>>
    /\ DictHas(form_data, KeyEmpty)

\* C3: load_template on text that does not parse returns False and leaves
\* template, root_key and key_order as they were.
C3_InvalidLoad ==
    [][(op' = "load_template" /\ ~SafeLoad(arg').ok) =>
          /\ out' = False
          /\ template' = template
          /\ root_key' = root_key
          /\ key_order' = key_order]_vars

\* invalid text has been refused by a generator that holds a wrapped template
C3_Witness ==
    /\ op = "load_template"
    /\ arg = InvalidYaml
    /\ out = False
    /\ IsDict(template)
    /\ root_key = KeyR
    /\ key_order = <<KeyB, KeyA>>

\* C4: load_template on text whose parsed root is not a mapping returns
\* False and leaves template, root_key and key_order as they were.
C4_NonMappingLoad ==
    [][(op' = "load_template" /\ SafeLoad(arg').ok /\ ~IsDict(SafeLoad(arg').v)) =>
          /\ out' = False
          /\ template' = template
          /\ root_key' = root_key
          /\ key_order' = key_order]_vars

-----------------------------------------------------------------------------
(* The unedited round trip: C5 *)

\* a render pass has created widgets and none holds an edited value
Unedited == DOMAIN widgets /= {} /\ \A w \in DOMAIN widgets : widgets[w] = WidgetDefault(w)

\* C5: the preview of a loaded template that was rendered and not edited
\* parses to the template: the same keys and values in the same order,
\* under the root key if there is one.
C5_UneditedRoundTrip ==
    (op = "preview" /\ IsDict(template) /\ Unedited) => SafeLoad(out) = Loaded(template)

-----------------------------------------------------------------------------
(* export_yaml and the loader: C6 *)

\* C6: for every non-empty form state d of strings, booleans, numbers,
\* lists and nested mappings, the loader's parser applied to export_yaml(d)
\* gives d: the same keys, nesting, value types and values.
C6_ExportRoundTrip ==
    (op = "export_yaml" /\ arg \in FormStates) => SafeLoad(out) = Loaded(arg)

-----------------------------------------------------------------------------
(* get_structured_data: C7 and C8 *)

\* the form-state entries in the order the specification gives: the keys of
\* key_order that form state holds, then the other entries as form state
\* lists them
OrderedFormState ==
    LET first == SelectSeq(key_order, LAMBDA k : DictHas(form_data, k))
        others == SelectSeq(form_data.kv,
                            LAMBDA e : \A i \in 1..Len(key_order) : key_order[i] /= e.k)
    IN  PyDict([i \in 1..Len(first) |-> Entry(first[i], DictGet(form_data, first[i]))]
               \o others)

\* C7: get_structured_data on a form state that holds entries returns them
\* ordered by key_order first and form-state order after, none lost or
\* duplicated, as {root_key: ordered} if and only if a root key is recorded.
C7_StructuredData ==
    (op = "get_structured_data" /\ Truthy(form_data)) =>
        out = IF root_key /= None
              THEN PyDict(<<Entry(root_key, OrderedFormState)>>)
              ELSE OrderedFormState

\* C8: export_yaml of the empty mapping is "No data" and export_csv of it is
\* the empty string; with an empty form state get_structured_data returns
\* the empty mapping, root key or not, and the preview is "No data".
C8_EmptyData ==
    /\ export_yaml(EmptyDict) = << <<"N", "o", " ", "d", "a", "t", "a">> >>
    /\ export_csv(EmptyDict) = <<>>
    /\ (op = "get_structured_data" /\ form_data = EmptyDict) => out = EmptyDict
    /\ (op = "preview" /\ form_data = EmptyDict) =>
           arg = EmptyDict /\ out = << <<"N", "o", " ", "d", "a", "t", "a">> >>

\* the preview of a rendered form whose only field was emptied, under a
\* recorded root key
C8_Witness ==
    /\ op = "preview"
    /\ form_data = EmptyDict
    /\ root_key = KeyR
    /\ DOMAIN widgets /= {}
    /\ out = <<NO_DATA_TEXT>>

-----------------------------------------------------------------------------
(* CSV: C9 and C10 *)

RECURSIVE WithQuotesDoubled(_)
\* the cell with every double quote written twice
WithQuotesDoubled(c) ==
    IF c = <<>> THEN <<>>
    ELSE (IF c[1] = "\"" THEN <<"\"", "\"">> ELSE <<c[1]>>) \o WithQuotesDoubled(Tail(c))

\* the cell as the specification writes it
Quoted(c) ==
    IF \E i \in 1..Len(c) : c[i] \in {",", "\"", "\n"}
    THEN <<"\"">> \o WithQuotesDoubled(c) \o <<"\"">>
    ELSE c

\* C9: _quote_if_needed(c) is c in double quotes with every double quote in
\* it doubled if c holds a comma, a double quote or a line break, and c
\* itself otherwise.
C9_QuoteIfNeeded == op = "_quote_if_needed" => out = Quoted(arg.s)

\* a cell with a double quote and a line break has been quoted
C9_Witness ==
    /\ op = "_quote_if_needed"
    /\ arg = PyStr(<<"\"", "\n">>)
    /\ out = <<"\"", "\"", "\"", "\n", "\"">>

RECURSIVE RowsOf(_, _, _)
\* the rows of mapping d from entry i on, depth first, segs being the keys
\* on the way to d: <<path, value>> with the path joined by "."
RowsOf(d, segs, i) ==
    IF i > Len(d.kv) THEN <<>>
    ELSE LET e == d.kv[i]
             path == Join(segs \o <<ToStr(e.k)>>, <<".">>)
             here == IF IsDict(e.v) THEN RowsOf(e.v, segs \o <<ToStr(e.k)>>, 1)
                     ELSE IF IsList(e.v)
                     THEN [j \in 1..Len(e.v.items) |-> <<path, ToStr(e.v.items[j])>>]
                     ELSE << <<path, ToStr(e.v)>> >>
         IN  here \o RowsOf(d, segs, i + 1)

\* the text of the rows under the header row
CsvText(rows) ==
    LET lines == << <<"k", "e", "y", "_", "p", "a", "t", "h", ",", "v", "a", "l", "u", "e">> >>
                 \o [r \in 1..Len(rows) |-> Quoted(rows[r][1]) \o <<",">> \o Quoted(rows[r][2])]
    IN  Join(lines, <<"\n">>)

\* C10: export_csv of a non-empty mapping is the header row key_path,value
\* and then, depth first in insertion order, one row per scalar and one per
\* sequence element, each under its keys joined by ".".
C10_CsvRows ==
    (op = "export_csv" /\ Truthy(arg)) => out = CsvText(RowsOf(arg, <<>>, 1))

-----------------------------------------------------------------------------
(* Category structures: C11 *)

\* the sequences among the values of mapping m, by position
SequencesOf(m) == {i \in 1..Len(m.kv) : m.kv[i].v.t = "list"}

\* a sequence that is not empty and whose first element is a mapping with
\* the key name
LedByNamed(v) ==
    /\ Len(v.items) > 0
    /\ v.items[1].t = "dict"
    /\ \E j \in 1..Len(v.items[1].kv) : v.items[1].kv[j].k = NameKey

\* C11: _is_category_structure(m) is true if and only if at least two values
\* of m are sequences and at least one of those sequences is non-empty with
\* a first element that is a mapping containing the key name; a mapping
\* with one sequence of strings and one nested mapping is not a category
\* structure.
C11_CategoryStructure ==
    op = "_is_category_structure" =>
        /\ out = True <=> /\ Cardinality(SequencesOf(arg)) >= 2
                          /\ \E i \in SequencesOf(arg) : LedByNamed(arg.kv[i].v)
        /\ out \in {True, False}
        /\ arg = PyDict(<<Entry(KeyA, PyList(<<TextN>>)),
                          Entry(KeyB, PyDict(<<Entry(NameKey, TextN)>>))>>) => out = False

\* a mapping with a sequence of strings and a sequence led by a named
\* mapping has been found to be a category structure
C11_Witness ==
    /\ op = "_is_category_structure"
    /\ arg = PyDict(<<Entry(KeyA, PyList(<<TextN>>)),
                      Entry(KeyB, PyList(<<PyDict(<<Entry(NameKey, TextN)>>)>>))>>)
    /\ out = True

-----------------------------------------------------------------------------
(* The form state after a render pass: C12 *)

\* a render pass over a loaded mapping has run to its end
Rendered == op = "render_form" /\ out /= Raised /\ template.t = "dict"

\* the mapping whose entries are the fields of the form
Fields == ProjectData(Self)

\* a category structure, as the specification defines it
IsCategory(m) ==
    /\ Cardinality(SequencesOf(m)) >= 2
    /\ \E i \in SequencesOf(m) : LedByNamed(m.kv[i].v)

RECURSIVE NoEmptyEntry(_)
\* no entry of mapping d, at any depth, is an empty string, an empty
\* sequence or an empty mapping
NoEmptyEntry(d) ==
    \A i \in 1..Len(d.kv) :
        LET v == d.kv[i].v
        IN  CASE v.t = "str" -> v.s /= <<>>
              [] v.t = "list" -> v.items /= <<>>
              [] v.t = "dict" -> v.kv /= <<>> /\ NoEmptyEntry(v)
              [] OTHER -> TRUE

\* the value mapping d holds under key k, None if it holds none
ValueAt(d, k) ==
    IF d.t = "dict" /\ \E i \in 1..Len(d.kv) : d.kv[i].k = k
    THEN d.kv[CHOOSE i \in 1..Len(d.kv) : d.kv[i].k = k].v
    ELSE None

RECURSIVE FlagsAndNumbersIn(_, _)
\* every boolean and every number field of the mapping fields, in panels
\* too, has an entry of its type in the form state d
FlagsAndNumbersIn(fields, d) ==
    \A i \in 1..Len(fields.kv) :
        LET k == fields.kv[i].k
            v == fields.kv[i].v
        IN  CASE v.t = "bool" -> ValueAt(d, k).t = "bool"
              [] v.t \in {"int", "float"} -> ValueAt(d, k).t \in {"int", "float"}
              [] v.t = "dict" /\ ~IsCategory(v) -> FlagsAndNumbersIn(v, ValueAt(d, k))
              [] OTHER -> TRUE

\* C12: after every render pass no entry of the form state, at any depth,
\* is an empty string, an empty list or an empty mapping, and every boolean
\* field and every number field of the template has its entry, whatever
\* its value.
C12_Omission == Rendered => NoEmptyEntry(form_data) /\ FlagsAndNumbersIn(Fields, form_data)

-----------------------------------------------------------------------------
(* validate_yaml: C13 *)

\* C13: validate_yaml(data) returns (True, "YAML is valid") if and only if
\* data is not empty and the text export_yaml(data) parses; for empty data it
\* returns (False, "No data to validate"); when the text does not parse it
\* returns False with a message; it raises nothing and leaves the data and
\* the generator as they were.
C13_ValidateYaml ==
    op = "validate_yaml" =>
        /\ out = <<True, "YAML is valid">> <=> (arg.kv /= <<>> /\ SafeLoad(export_yaml(arg)).ok)
        /\ arg.kv = <<>> => out = <<False, "No data to validate">>
        /\ out /= <<True, "YAML is valid">> =>
              /\ out[1] = False
              /\ out[2] \in {"No data to validate", "YAML validation error", "Validation error"}
        /\ out /= Raised
        /\ arg \in ExportInputs
        /\ Self = NewGenerator

\* a form state whose export does not parse has been found invalid
C13_Witness ==
    /\ op = "validate_yaml"
    /\ arg = PyDict(<<Entry(KeyA, PyStr(<<"[">>))>>)
    /\ out = <<False, "YAML validation error">>

-----------------------------------------------------------------------------
(* Exceptions: C14 *)

\* C14: no operation of a session raises an exception to its caller,
\* whatever text was loaded before: load_template, render_form and
\* get_structured_data return a value (the exports of the preview return
\* text in every case); a render pass after a failed load runs to its end.
C14_NoException ==
    op \in {"load_template", "render_form", "get_structured_data"} => out /= Raised

-----------------------------------------------------------------------------
(* The session variables: C15 *)

\* the first script run of a session set every session variable, each to
\* its default but for the placeholders the upload form of that run made
FirstAccess ==
    DOMAIN session = {} =>
        /\ DOMAIN session' = DOMAIN SessionDefaults
        /\ \A key \in DOMAIN SessionDefaults \ {"upload_placeholder", "message_placeholder"} :
              session'[key] = SessionDefaults[key]
        /\ Self' = NewGenerator

\* the step is the script run in which the user clicked Clear Form
Cleared == op' = "rerun" /\ arg'.e = "clear"

\* no key of a form widget is left, and the generator is a new one
FormGone ==
    /\ \A w \in DOMAIN widgets' :
          ~StartsWith(w.key, {FIELD_PREFIX, BOOL_PREFIX, NUM_PREFIX, MULTI_PREFIX, CAT_PREFIX})
    /\ Self' = NewGenerator

\* the session variables the run of a step may overwrite: the placeholders,
\* made by the upload form; the variable of the widget that was changed;
\* the two a click on Validate YAML sets
Overwritten ==
    {"upload_placeholder", "message_placeholder"}
    \cup (IF arg'.e = "validate" THEN {"yaml_validation_status", "yaml_is_valid"} ELSE {})
    \cup (IF arg'.e = "change" /\ arg'.value \in Range(Selectbox(0).param.items)
          THEN {"selected_template"} ELSE {})
    \cup (IF arg'.e = "change" /\ arg'.value \in Uploads \cup {None}
          THEN {"uploaded_file"} ELSE {})

\* a script run without a click on Clear Form leaves every session variable
\* as it was, but for those its widgets and handlers overwrite
FrameOfRun ==
    (DOMAIN session /= {} /\ arg'.e /= "clear") =>
        \A key \in DOMAIN SessionDefaults \ Overwritten : session'[key] = session[key]

-----------------------------------------------------------------------------
(* The controls of the fields: C16 *)

\* the control of a value, by the first rule of the specification that
\* matches: string, boolean, number, sequence of strings only, category
\* structure, any other mapping
ControlKind(v) ==
    IF v.t = "str" THEN "text_input"
    ELSE IF v.t = "bool" THEN "checkbox"
    ELSE IF v.t \in {"int", "float"} THEN "number_input"
    ELSE IF v.t = "list" /\ \A i \in 1..Len(v.items) : v.items[i].t = "str" THEN "multiselect"
    ELSE IF v.t = "dict" /\ IsCategory(v) THEN "tabs"
    ELSE IF v.t = "dict" THEN "panel"
    ELSE "none"

RECURSIVE ControlsOf(_, _)
\* the widgets of the field key with value v, each by key, kind and the
\* value it is made for: one for a scalar or a sequence of strings, one
\* multi-select per tab for a category structure, those of its sub-keys for
\* a panel
ControlsOf(key, v) ==
    CASE ControlKind(v) = "text_input" -> {<<FIELD_PREFIX \o key, "text_input", v>>}
      [] ControlKind(v) = "checkbox" -> {<<BOOL_PREFIX \o key, "checkbox", v>>}
      [] ControlKind(v) = "number_input" -> {<<NUM_PREFIX \o key, "number_input", v>>}
      [] ControlKind(v) = "multiselect" -> {<<MULTI_PREFIX \o key, "multiselect", v>>}
      [] ControlKind(v) = "tabs" ->
           {<<CAT_PREFIX \o key \o <<"_">> \o v.kv[i].k.s, "multiselect", v.kv[i].v>> :
               i \in 1..Len(v.kv)}
      [] ControlKind(v) = "panel" ->
           UNION {ControlsOf(key \o <<"_">> \o v.kv[i].k.s, v.kv[i].v) : i \in 1..Len(v.kv)}
      [] OTHER -> {}

\* the widgets the fields of the form are to get
ExpectedControls ==
    UNION {ControlsOf(Fields.kv[i].k.s, Fields.kv[i].v) : i \in 1..Len(Fields.kv)}

\* C16: every template value gets the control of the first rule that
\* matches it, in the order string, boolean, number, sequence of strings,
\* category structure, other mapping, and exactly that one; a boolean is a
\* checkbox, never a numeric field, and its value in the form state is a
\* boolean.
C16_Dispatch ==
    Rendered =>
        /\ {<<w.key, w.kind>> : w \in DOMAIN widgets} = {<<c[1], c[2]>> : c \in ExpectedControls}
        /\ \A w \in DOMAIN widgets :
              /\ ~StartsWith(w.key, {CAT_PREFIX}) => <<w.key, w.kind, w.param>> \in ExpectedControls
              /\ w.kind = "text_input" <=> w.param.t = "str"
              /\ w.kind = "checkbox" <=> w.param.t = "bool"
              /\ w.kind = "number_input" <=> w.param.t \in {"int", "float"}
              /\ w.param.t = "bool" => widgets[w].t = "bool"
        /\ \A i \in 1..Len(Fields.kv) :
              Fields.kv[i].v.t = "bool" => ValueAt(form_data, Fields.kv[i].k).t \in {"bool", "null"}

\* the checkbox of a boolean field has been unticked: the form state holds
\* the boolean False
C16_Witness ==
    /\ Rendered
    /\ Fields = PyDict(<<Entry(KeyA, TextN), Entry(KeyB, True)>>)
    /\ Checkbox(BOOL_PREFIX \o <<"b">>, True) \in DOMAIN widgets
    /\ ValueAt(form_data, KeyB) = False

-----------------------------------------------------------------------------
(* Panels: C17 and C18 *)

\* what the widget with this key and kind, made for value v, holds; None
\* if the pass made no such widget
Held(key, kind, v) ==
    LET w == [key |-> key, kind |-> kind, param |-> v]
    IN  IF w \in DOMAIN widgets THEN widgets[w] ELSE None

\* None in place of an empty string, sequence or mapping
Omitted(x) ==
    IF \/ x.t = "str" /\ x.s = <<>>
       \/ x.t = "list" /\ x.items = <<>>
       \/ x.t = "dict" /\ x.kv = <<>>
    THEN None ELSE x

RECURSIVE EntryOf(_, _)
\* the entry the controls of the field key with value v give the form
\* state, None for no entry: the edited value of a scalar, the selection of
\* a multi-select, the selected objects of a category structure by tab, and
\* for a panel the mapping of its sub-keys' entries under their own names
EntryOf(key, v) ==
    CASE ControlKind(v) = "text_input" -> Omitted(Held(FIELD_PREFIX \o key, "text_input", v))
      [] ControlKind(v) = "checkbox" -> Held(BOOL_PREFIX \o key, "checkbox", v)
      [] ControlKind(v) = "number_input" -> Held(NUM_PREFIX \o key, "number_input", v)
      [] ControlKind(v) = "multiselect" -> Omitted(Held(MULTI_PREFIX \o key, "multiselect", v))
      [] ControlKind(v) = "tabs" ->
           ValueAt(RenderTabs(Pass(EmptyDict), widgets, PyStr(key), v, 1, EmptyDict).fd, PyStr(key))
      [] ControlKind(v) = "panel" ->
           LET held == SelectSeq(v.kv, LAMBDA e : EntryOf(key \o <<"_">> \o e.k.s, e.v) /= None)
           IN  Omitted(PyDict([i \in 1..Len(held) |->
                                  Entry(held[i].k, EntryOf(key \o <<"_">> \o held[i].k.s, held[i].v))]))
      [] OTHER -> None

\* the top-level fields that are panels, by position
Panels == {i \in 1..Len(Fields.kv) : ControlKind(Fields.kv[i].v) = "panel"}

\* C17: after a render pass the form state holds, for a nested mapping
\* under key P, a mapping keyed by the un-prefixed names of P's sub-keys
\* with each sub-key's edited value, recursively; no composite key P_child
\* of the panel is left in the form state.
C17_PanelFolded ==
    Rendered =>
        \A i \in Panels :
            /\ ValueAt(form_data, Fields.kv[i].k) = EntryOf(Fields.kv[i].k.s, Fields.kv[i].v)
            /\ \A j \in 1..Len(Fields.kv[i].v.kv) :
                  LET composite == PyStr(Fields.kv[i].k.s \o <<"_">> \o Fields.kv[i].v.kv[j].k.s)
                  IN  ValueAt(form_data, composite) /= None => ValueAt(Fields, composite) /= None

\* C18: a panel for key P changes the entry of P only: every other
\* top-level key K of the template, one named P_child too, has in the form
\* state the entry its own control gives, whatever the order of K and P.
C18_PanelFrame ==
    (Rendered /\ Panels /= {}) =>
        /\ \A i \in 1..Len(Fields.kv) \ Panels :
              ValueAt(form_data, Fields.kv[i].k) = EntryOf(Fields.kv[i].k.s, Fields.kv[i].v)
        /\ \A j \in 1..Len(form_data.kv) : ValueAt(Fields, form_data.kv[j].k) /= None

-----------------------------------------------------------------------------
(* Category tabs: C19 *)

\* the items of tab i of the input at the indices the user selected, in
\* the order of selection
SelectedItems(in, i) ==
    [j \in 1..Len(in.sel[i]) |-> in.value.kv[i].v.items[in.sel[i][j]]]

\* C19: a category tab stores, for the options the user selected, the
\* original items of the tab's sequence that these options were made from
\* (the mappings with their name and code, never the display strings), one
\* object per selected option and in the order of selection; a tab with no
\* selection stores nothing.
C19_SelectedObjects ==
    op \in {"_render_category_tabs", "DynamicFormGenerator._render_category_tabs"} =>
        \A i \in 1..Len(arg.value.kv) :
            IF arg.sel[i] = <<>>
            THEN out = None \/ ~DictHas(out, arg.value.kv[i].k)
            ELSE /\ out /= None
                 /\ DictHas(out, arg.value.kv[i].k)
                 /\ DictGet(out, arg.value.kv[i].k) = PyList(SelectedItems(arg, i))

-----------------------------------------------------------------------------
(* Quote cleanup: C20 *)

\* a scalar that reads as a boolean or as a number
LooksBooleanOrNumeric(x) ==
    \/ x \in {<<"t", "r", "u", "e">>, <<"f", "a", "l", "s", "e">>}
    \/ x /= <<>> /\ \A i \in 1..Len(x) : x[i] \in {"0", "1", "2", "3", "4", "5", "6", "7", "8", "9"}

\* the positions at which a quoted scalar that ends the line opens
Openers(line) ==
    {j \in 1..Len(line) - 1 :
        /\ line[j] \in QuoteChars
        /\ line[Len(line)] = line[j]
        /\ \A i \in j + 1..Len(line) - 1 : line[i] /= line[j]}

\* the line without the quote pair of its scalar if the scalar reads as a
\* boolean or a number, the line as it is otherwise
WithoutNeedlessQuotes(line) ==
    IF \E j \in Openers(line) : LooksBooleanOrNumeric(SubSeq(line, j + 1, Len(line) - 1))
    THEN LET j == CHOOSE j \in Openers(line) : TRUE
         IN  SubSeq(line, 1, j - 1) \o SubSeq(line, j + 1, Len(line) - 1)
    ELSE line

\* C20: _clean_yaml_quotes removes the quote pair around a quoted scalar
\* that looks like a boolean or a number ("true", "123") and keeps the
\* quotes around regular text ("text" stays quoted).
C20_CleanYamlQuotes ==
    op = "_clean_yaml_quotes" =>
        out = [i \in 1..Len(arg.lines) |-> WithoutNeedlessQuotes(arg.lines[i])]

-----------------------------------------------------------------------------
(* The generator's fields: C21 *)

\* C21: in every state reached by loads, successful or failing, and
\* render passes, template is unset or a mapping; if root_key is set,
\* template has that one key with a mapping under it and key_order is the
\* keys of that mapping; otherwise key_order is the keys of template.
C21_FieldsConsistent ==
    /\ template = None \/ IsDict(template)
    /\ IF root_key /= None
       THEN /\ IsDict(template)
            /\ DictKeys(template) = <<root_key>>
            /\ IsDict(template.kv[1].v)
            /\ key_order = DictKeys(template.kv[1].v)
       ELSE key_order = IF IsDict(template) THEN DictKeys(template) ELSE <<>>

-----------------------------------------------------------------------------
(* The form state of a pass: C22 *)

\* what a generator with these template fields and an empty form state
\* exposes after a pass over the widget values W: a function of the
\* template and the widget values alone
ExposedBy(self, W) ==
    get_structured_data(render_form([self EXCEPT !.form_data = EmptyDict], W).self)

\* C22: get_structured_data after a render pass returns what the current
\* template and the current widget values determine: no entry of an
\* earlier pass or an earlier template is in it, and passes with the same
\* template and widget values expose the same form state.
C22_PassIsStateless ==
    [][(op = "render_form" /\ out /= Raised /\ op' = "get_structured_data") =>
          out' = ExposedBy(Self, widgets)]_vars

-----------------------------------------------------------------------------
(* The keys of the upload form: C23 *)

\* the widgets of the upload form that hold a value
UploadWidgets == {w \in DOMAIN widgets : w.kind \in {"selectbox", "file_uploader"}}

-----------------------------------------------------------------------------
(* The download after validation: C24 *)

\* the pass that has just ended showed the export controls with Download
\* YAML enabled
DownloadEnabled ==
    /\ op' = "script_run"
    /\ out' /= Raised
    /\ Truthy(out')
    /\ session'.yaml_is_valid = True

\* C24: when a pass enables Download YAML, validate_yaml has returned
\* valid for the structured data that pass previews: the data validates,
\* and a pass that a widget change triggered, in which nothing is
\* validated, previews the data of the pass before it; an edit after a
\* successful validation disables the download.
C24_DownloadValidated ==
    [][DownloadEnabled =>
          /\ validate_yaml(get_structured_data(Self'))[1] = True
          /\ arg'.e = "change" => get_structured_data(Self') = get_structured_data(Self)]_vars

-----------------------------------------------------------------------------
(* Loads and clears of a session: C25 *)

\* the handler of the upload form has called load_template in the run: it
\* has recorded a newly selected template or a newly uploaded file
LoadCalled ==
    /\ arg'.e = "change"
    /\ \/ session'.selected_template /= session.selected_template
       \/ session'.uploaded_file /= session.uploaded_file /\ session'.uploaded_file /= None

\* the load of the run returned True: the handler asked for a rerun
LoadSucceeded == LoadCalled /\ op' = "rerun"

\* C25: load_template is called only in a run that started with no
\* template installed; a successful load leaves a template that the next
\* run sees (it shows the form and the clear button, not the upload
\* form); an installed template stays as it is until a clear, so between
\* two successful loads of a session there is a clear.
C25_LoadOnlyWithoutTemplate ==
    [][op /= "init" =>
          /\ LoadCalled => ~Truthy(template)
          /\ LoadSucceeded => Truthy(template')
          /\ (Truthy(template) /\ arg'.e /= "clear") => template' = template]_vars

-----------------------------------------------------------------------------
(* The end of a chain of reruns: C26 *)

\* the upload form, run over the widget values the session holds, would
\* call load_template: its selector holds a template, or its uploader a
\* file, that the session has not recorded
LoadDue ==
    /\ ~Truthy(template)
    /\ UploadWidgets /= {}
    /\ LET selected == WidgetValue(widgets, Selectbox(session.file_uploader_key.n))
           uploaded == WidgetValue(widgets, FileUploader(session.file_uploader_key.n))
       IN  \/ Truthy(selected) /\ selected /= session.selected_template
           \/ uploaded /= None /\ uploaded /= session.uploaded_file

\* C26: a rerun is asked for only by a successful load, a click on clear
\* or a click on validate; a run without new input asks for none, calls
\* no load and changes neither the generator nor what the session has
\* recorded as loaded, so a load that failed is not tried again while the
\* same selection or file remains; and a chain of reruns reaches a run
\* that asks for no rerun.
C26_RerunsEnd ==
    /\ [][ /\ op' = "rerun" => (arg'.e \in {"clear", "validate"} \/ LoadSucceeded)
           /\ ~LoadDue'
           /\ (op /= "init" /\ arg'.e = "run") =>
                 /\ op' = "script_run"
                 /\ template' = template /\ root_key' = root_key /\ key_order' = key_order
                 /\ session'.selected_template = session.selected_template
                 /\ session'.uploaded_file = session.uploaded_file ]_vars
    /\ (op = "rerun") ~> (op = "script_run")

\* a run without new input while the file whose load failed is still in
\* the uploader
C26_Witness ==
    /\ op = "script_run"
    /\ arg = [e |-> "run"]
    /\ ~Truthy(template)
    /\ session.uploaded_file = [name |-> <<"i">>, content |-> InvalidYaml]
    /\ widgets[FileUploader(0)] = session.uploaded_file

-----------------------------------------------------------------------------
(* The keys of the form state: C27 *)

\* C27: after a render pass on a loaded template every top-level key of
\* the form state is in key_order: get_structured_data returns the keys in
\* the order of key_order and its step that appends the remaining keys
\* has none to append.
C27_KeysInKeyOrder ==
    (op = "render_form" /\ out /= Raised /\ IsDict(template)) =>
        /\ \A i \in 1..Len(form_data.kv) :
              \E j \in 1..Len(key_order) : key_order[j] = form_data.kv[i].k
        /\ OrderedFormState.kv = SelectSeq(OrderedFormState.kv,
                                          LAMBDA e : \E j \in 1..Len(key_order) : key_order[j] = e.k)

-----------------------------------------------------------------------------
(* Values of no shape: C28 *)

\* the prefixes of the widget keys of the form
FormPrefixes == {FIELD_PREFIX, BOOL_PREFIX, NUM_PREFIX, MULTI_PREFIX, CAT_PREFIX}

RECURSIVE ShapelessLeftOut(_, _, _)
\* for every value of the mapping fields, in panels too, that has none of
\* the six shapes: no widget was made for it, and the form state d holds
\* no entry under its key; prefix is the composite key of the panel
ShapelessLeftOut(fields, d, prefix) ==
    \A i \in 1..Len(fields.kv) :
        LET k == fields.kv[i].k
            v == fields.kv[i].v
        IN  CASE ControlKind(v) = "none" ->
                   /\ ValueAt(d, k) = None
                   /\ \A w \in DOMAIN widgets :
                         ~(w.key \in {P \o prefix \o k.s : P \in FormPrefixes} /\ w.param = v)
              [] ControlKind(v) = "panel" ->
                   ShapelessLeftOut(v, ValueAt(d, k), prefix \o k.s \o <<"_">>)
              [] OTHER -> TRUE

\* every field of the form has none of the six shapes
AllShapeless == \A i \in 1..Len(Fields.kv) : ControlKind(Fields.kv[i].v) = "none"

\* C28: a template value of none of the six shapes (null, a sequence with
\* an element that is no string) gets no control and no entry in the form
\* state, and raises no error: whatever the user does, its key is in no
\* export, which is made from the ordered form state.
C28_ShapelessSkipped ==
    (op = "render_form" /\ IsDict(template) /\ Truthy(template)) =>
        /\ AllShapeless => out = EmptyDict
        /\ out /= Raised =>
              /\ ShapelessLeftOut(Fields, form_data, <<>>)
              /\ ShapelessLeftOut(Fields,
                                  IF Truthy(root_key)
                                  THEN ValueAt(get_structured_data(Self), root_key)
                                  ELSE get_structured_data(Self), <<>>)

-----------------------------------------------------------------------------
(* The labels of options and tabs: C29 and C30 *)

\* C29: _format_item_display(item) is "{name} ({code})" for a mapping with
\* name and code, "{name}" for a mapping with name and no code, and the
\* item as a string otherwise; a string is returned as it is.
C29_FormatItemDisplay ==
    op = "_format_item_display" =>
        LET item == arg.item
            name == ToStr(ValueAt(item, NameKey))
            code == ToStr(ValueAt(item, CodeKey))
        IN  /\ out.t = "str"
            /\ (item.t = "dict" /\ DictHas(item, NameKey) /\ DictHas(item, CodeKey)) =>
                  out.s = name \o <<" ", "(">> \o code \o <<")">>
            /\ (item.t = "dict" /\ DictHas(item, NameKey) /\ ~DictHas(item, CodeKey)) =>
                  out.s = name
            /\ (item.t = "dict" /\ ~DictHas(item, NameKey)) => out.s = PyRepr(item)
            /\ item.t = "str" => out = item
            /\ item.t \notin {"dict", "str"} => out.s = PyRepr(item)

\* the label of a mapping with name n and code o
C29_Witness ==
    /\ op = "_format_item_display"
    /\ arg.item = PyDict(<<Entry(NameKey, TextN), Entry(CodeKey, PyStr(<<"o">>))>>)
    /\ out = PyStr(<<"n", " ", "(", "o", ")">>)

\* text without spaces at its ends
Trimmed(x) == x = <<>> \/ (x[1] /= " " /\ x[Len(x)] /= " ")

\* x without the spaces at its ends
Trim(x) ==
    IF \A i \in 1..Len(x) : x[i] = " " THEN <<>>
    ELSE LET first == CHOOSE i \in 1..Len(x) : x[i] /= " " /\ \A j \in 1..(i - 1) : x[j] = " "
             last == CHOOSE i \in 1..Len(x) : x[i] /= " " /\ \A j \in (i + 1)..Len(x) : x[j] = " "
         IN  SubSeq(x, first, last)

\* the positions of x that hold the character c
Positions(x, c) == {i \in 1..Len(x) : x[i] = c}

\* name ends in one parenthetical: its only "(" and, as its last
\* character, its only ")"
HasParentheticalSuffix(x) ==
    /\ Cardinality(Positions(x, "(")) = 1
    /\ Positions(x, ")") = {Len(x)}
    /\ Positions(x, "(") /= {Len(x)}

\* C30, as the specification states it: _format_tab_name(name) is name
\* without its parenthetical suffix and without surrounding whitespace,
\* and a name without parentheses is returned unchanged.
C30_FormatTabName ==
    op = "_format_tab_name" =>
        /\ HasParentheticalSuffix(arg.s) =>
              out.s = Trim(SubSeq(arg.s, 1, (CHOOSE i \in Positions(arg.s, "(") : TRUE) - 1))
        /\ (Positions(arg.s, "(") = {} /\ Positions(arg.s, ")") = {}) => out.s = arg.s

\* C30, amended: _format_tab_name(name) is the text of name before its
\* first "(", the whole name if it has none, without surrounding
\* whitespace: a name without "(" is returned unchanged only if it has no
\* space at its ends, and what follows the first "(" is dropped whether
\* or not it is a parenthetical that ends the name.
C30_FormatTabName_Amended ==
    op = "_format_tab_name" =>
        LET opens == Positions(arg.s, "(")
            before == IF opens = {} THEN arg.s
                      ELSE SubSeq(arg.s, 1, (CHOOSE i \in opens : \A j \in opens : i <= j) - 1)
        IN  /\ out.s = Trim(before)
            /\ Trimmed(out.s)
            /\ Positions(out.s, "(") = {}
            /\ (opens = {} /\ Trimmed(arg.s)) => out.s = arg.s

\* the name "a ()" gives "a"
C30_Witness ==
    /\ op = "_format_tab_name"
    /\ arg.s = <<"a", " ", "(", ")">>
    /\ out = PyStr(<<"a">>)

=============================================================================
